---- MODULE Spec2Model ----
(***************************************************************************)
(* AgentChain: the PoSA consensus coordinator (PoSAConsensus), the         *)
(* validator registry (ValidatorManager) and the ledger (Chain, with its   *)
(* StateManager and TransactionPool), as state machines.                   *)
(* The StateManager and the TransactionPool are also taken on their own,   *)
(* under the calls of an owner, and the Chain under callers of its public  *)
(* addBlock, both as one step and from await to await.                     *)
(*                                                                         *)
(* A hash is modelled by the record of the fields it is computed from: an  *)
(* injective stand-in for keccak256 over their JSON rendering.  Balances   *)
(* are counted in units of 10^26 wei.                                      *)
(***************************************************************************)
EXTENDS Integers, Sequences, FiniteSets, TLC

VARIABLES
    validatorInfos,     \* ValidatorManager.validatorInfos, in insertion order
    config,             \* PoSAConsensus.config
    isActive,           \* PoSAConsensus.isActive
    voteListeners,      \* listeners of the manager's 'vote' event
    currentRound,       \* PoSAConsensus.currentRound
    consensusHistory,   \* PoSAConsensus.consensusHistory
    clock,              \* Date.now(), a logical clock
    timers,             \* armed setTimeout callbacks, by the round armed for
    calls,              \* proposeBlock calls suspended in requestValidatorVotes, by round
    requestErrors,      \* the validators whose request the last of these calls logged as failed
    blocks,             \* Chain.blocks, by hash
    blocksByNumber,     \* Chain.blocksByNumber
    currentHeight,      \* Chain.currentHeight
    accounts,           \* StateManager.accounts
    currentStateRoot,   \* StateManager.currentStateRoot
    pendingTransactions, \* TransactionPool.pendingTransactions, in insertion order
    snapshot,           \* the StateSnapshot the caller of createSnapshot holds
    appliedCount,       \* per sender, how many transactions processTransaction applied
    addBlockCalls       \* the calls of Chain.addBlock suspended at an await of its loop

consensusVars == <<validatorInfos, config, isActive, voteListeners, currentRound,
                   consensusHistory, clock, timers, calls, requestErrors>>

chainVars == <<blocks, blocksByNumber, currentHeight, accounts, currentStateRoot,
               pendingTransactions, snapshot, appliedCount, addBlockCalls>>

vars == <<validatorInfos, config, isActive, voteListeners, currentRound,
          consensusHistory, clock, timers, calls, requestErrors, blocks, blocksByNumber,
          currentHeight, accounts, currentStateRoot, pendingTransactions, snapshot,
          appliedCount, addBlockCalls>>

----------------------------------------------------------------------------
(* Bounds of the model *)

MaxRounds == 2
MaxListeners == 1
MaxHeight == 2
MaxNonce == 1
MaxApplied == 2
MaxCalls == 3
MaxPool == 10
MaxInFlight == 2
LargePrice == 1000
MaxVotes == 2

(* validators in the registries whose arrival orders are compared *)
MaxValidators == 4

(* Program constants *)

ValidatorCount == 6
RequiredVotes == 4
HistoryLimit == 100
BlockGasLimit == 100000000
PendingLimit == 100
MAX_POOL_SIZE == 10000

----------------------------------------------------------------------------
(* Validator registry *)

ValidatorIds == <<"claude", "gpt", "grok", "stable", "perplex", "cohere">>

initializeValidators(n) ==
    [i \in 1..n |-> [id |-> ValidatorIds[i], isActive |-> TRUE]]

getActiveValidators == SelectSeq(validatorInfos, LAMBDA info : info.isActive)

ActiveIds == {getActiveValidators[i].id : i \in 1..Len(getActiveValidators)}

(* The registry with the statistics it keeps of each validator.  No code     *)
(* writes correctVotes; lastActiveTime is taken by the days since it that    *)
(* updateValidatorReputations finds.                                         *)
withStatistics(infos, reputations) ==
    [i \in 1..Len(infos) |->
        [id |-> infos[i].id, isActive |-> infos[i].isActive,
         reputation |-> reputations[i], totalVotes |-> 0, correctVotes |-> 0]]

(* Math.round of a quotient of naturals *)
MathRound(numerator, denominator) == (2 * numerator + denominator) \div (2 * denominator)

(* updateValidatorReputations; inactiveDays[i] is Math.floor of the days    *)
(* since the validator's lastActiveTime                                      *)
updateValidatorReputations(infos, inactiveDays) ==
    [i \in 1..Len(infos) |->
        LET accurate == IF infos[i].totalVotes > 0
                        THEN MathRound(infos[i].correctVotes * 100, infos[i].totalVotes)
                        ELSE infos[i].reputation
        IN [infos[i] EXCEPT !.reputation = IF inactiveDays[i] > 1
                                           THEN IF accurate - inactiveDays[i] >= 0
                                                THEN accurate - inactiveDays[i]
                                                ELSE 0
                                           ELSE accurate]]

(* ValidatorManager.handleValidatorVote, up to the 'vote' event it emits *)
countVote(infos, vote) ==
    [i \in 1..Len(infos) |->
        IF infos[i].id = vote.validator THEN [infos[i] EXCEPT !.totalVotes = @ + 1]
        ELSE infos[i]]

ReputationOf(validator) ==
    LET i == CHOOSE i \in 1..Len(validatorInfos) : validatorInfos[i].id = validator
    IN validatorInfos[i].reputation

----------------------------------------------------------------------------
(* Consensus rounds *)

defaultConfig == [validatorCount |-> ValidatorCount, requiredVotes |-> RequiredVotes]

NoRound == [blockHash |-> [zero |-> 64], proposer |-> "", startTime |-> 0, votes |-> <<>>,
            status |-> "null", finalizedAt |-> 0]

VoteKinds == {"approve", "reject"}

CountVotes(votes, kind) == Cardinality({i \in 1..Len(votes) : votes[i].vote = kind})

Voters(round) == {round.votes[i].validator : i \in 1..Len(round.votes)}

validateVoteSignature(vote) == vote.signature # "" /\ vote.validator # ""

(* what the validator's voteOnBlock does with a request *)
RequestOutcomes == {"returns", "throws"}

(* requestBlockVote throws for a validator that is not active, and throws *)
(* again what voteOnBlock throws                                          *)
requestBlockVoteThrows(validator, outcome) == ~validator.isActive \/ outcome = "throws"

(* requestValidatorVotes without the try around requestBlockVote *)
RECURSIVE requestValidatorVotesUncaught(_, _)
requestValidatorVotesUncaught(activeValidators, outcomes) ==
    IF activeValidators = <<>> THEN [asked |-> <<>>, logged |-> {}, threw |-> FALSE]
    ELSE LET validator == Head(activeValidators)
             rest == requestValidatorVotesUncaught(Tail(activeValidators), outcomes)
         IN IF requestBlockVoteThrows(validator, outcomes[validator.id])
            THEN [asked |-> <<validator.id>>, logged |-> {}, threw |-> TRUE]
            ELSE [rest EXCEPT !.asked = <<validator.id>> \o @]

(* requestValidatorVotes: the validators it asked, those whose request it *)
(* logged as failed, and whether it threw                                 *)
RECURSIVE requestValidatorVotes(_, _)
requestValidatorVotes(activeValidators, outcomes) ==
    IF activeValidators = <<>> THEN [asked |-> <<>>, logged |-> {}, threw |-> FALSE]
    ELSE LET validator == Head(activeValidators)
             rest == requestValidatorVotes(Tail(activeValidators), outcomes)
         IN [rest EXCEPT
                !.asked = <<validator.id>> \o @,
                !.logged = IF requestBlockVoteThrows(validator, outcomes[validator.id])
                           THEN @ \cup {validator.id} ELSE @]

(* ClaudeValidator.validateBlock: the decision of the model, or reject when *)
(* the request to it fails                                                  *)
validateBlock(response) ==
    IF response = "throws" THEN [action |-> "reject", confidence |-> 1]
    ELSE [action |-> response, confidence |-> 9]

(* finalizeRound without the reset of the current round *)
finalizeRoundKeepsRound(st, status) ==
    IF st.round = NoRound THEN st
    ELSE LET done == [st.round EXCEPT !.status = status, !.finalizedAt = clock]
             pushed == Append(st.history, done)
         IN [round |-> done,
             history |-> IF Len(pushed) > HistoryLimit THEN Tail(pushed) ELSE pushed,
             log |-> "Consensus round finalized"]

(* finalizeRound without the shift of the oldest round *)
finalizeRoundUnbounded(st, status) ==
    IF st.round = NoRound THEN st
    ELSE LET done == [st.round EXCEPT !.status = status, !.finalizedAt = clock]
         IN [round |-> NoRound,
             history |-> Append(st.history, done),
             log |-> "Consensus round finalized"]

(* finalizeRound on the coordinator state st = [round, history, log] *)
finalizeRound(st, status) ==
    IF st.round = NoRound THEN st
    ELSE LET done == [st.round EXCEPT !.status = status, !.finalizedAt = clock]
             pushed == Append(st.history, done)
         IN [round |-> NoRound,
             history |-> IF Len(pushed) > HistoryLimit THEN Tail(pushed) ELSE pushed,
             log |-> "Consensus round finalized"]

(* checkConsensusStatus deciding only once a count exceeds the quorum *)
checkConsensusStatusAboveQuorum(st) ==
    IF st.round = NoRound THEN st
    ELSE LET approvalVotes == CountVotes(st.round.votes, "approve")
             rejectionVotes == CountVotes(st.round.votes, "reject")
             totalVotes == Len(st.round.votes)
         IN IF approvalVotes > config.requiredVotes THEN finalizeRound(st, "approved")
            ELSE IF rejectionVotes > config.requiredVotes THEN finalizeRound(st, "rejected")
            ELSE IF totalVotes >= config.validatorCount
                 THEN IF approvalVotes > rejectionVotes
                      THEN finalizeRound(st, "approved")
                      ELSE finalizeRound(st, "rejected")
                 ELSE st

(* checkConsensusStatus counting the votes of the validators that have a    *)
(* reputation                                                                *)
checkConsensusStatusByReputation(st) ==
    IF st.round = NoRound THEN st
    ELSE LET reputed == SelectSeq(st.round.votes, LAMBDA v : ReputationOf(v.validator) > 0)
             approvalVotes == CountVotes(reputed, "approve")
             rejectionVotes == CountVotes(reputed, "reject")
             totalVotes == Len(st.round.votes)
         IN IF approvalVotes >= config.requiredVotes THEN finalizeRound(st, "approved")
            ELSE IF rejectionVotes >= config.requiredVotes THEN finalizeRound(st, "rejected")
            ELSE IF totalVotes >= config.validatorCount
                 THEN IF approvalVotes > rejectionVotes
                      THEN finalizeRound(st, "approved")
                      ELSE finalizeRound(st, "rejected")
                 ELSE st

(* checkConsensusStatus taking the majority once as many votes as the quorum *)
(* have come                                                                 *)
checkConsensusStatusAtQuorumVotes(st) ==
    IF st.round = NoRound THEN st
    ELSE LET approvalVotes == CountVotes(st.round.votes, "approve")
             rejectionVotes == CountVotes(st.round.votes, "reject")
             totalVotes == Len(st.round.votes)
         IN IF approvalVotes >= config.requiredVotes THEN finalizeRound(st, "approved")
            ELSE IF rejectionVotes >= config.requiredVotes THEN finalizeRound(st, "rejected")
            ELSE IF totalVotes >= config.requiredVotes
                 THEN IF approvalVotes > rejectionVotes
                      THEN finalizeRound(st, "approved")
                      ELSE finalizeRound(st, "rejected")
                 ELSE st

checkConsensusStatus(st) ==
    IF st.round = NoRound THEN st
    ELSE LET approvalVotes == CountVotes(st.round.votes, "approve")
             rejectionVotes == CountVotes(st.round.votes, "reject")
             totalVotes == Len(st.round.votes)
         IN IF approvalVotes >= config.requiredVotes THEN finalizeRound(st, "approved")
            ELSE IF rejectionVotes >= config.requiredVotes THEN finalizeRound(st, "rejected")
            ELSE IF totalVotes >= config.validatorCount
                 THEN IF approvalVotes > rejectionVotes
                      THEN finalizeRound(st, "approved")
                      ELSE finalizeRound(st, "rejected")
                 ELSE st

(* handleValidatorVote without the look-up of the validator's earlier vote *)
handleValidatorVoteAgain(st, vote) ==
    IF st.round = NoRound
    THEN [st EXCEPT !.log = "Received vote outside of consensus round"]
    ELSE IF vote.blockHash # st.round.blockHash
    THEN [st EXCEPT !.log = "Received vote for different block"]
    ELSE IF ~validateVoteSignature(vote)
    THEN [st EXCEPT !.log = "Invalid vote signature"]
    ELSE checkConsensusStatus(
            [st EXCEPT !.round.votes = Append(@, vote), !.log = "Validator vote received"])

(* handleValidatorVote without the comparison of the block hashes *)
handleValidatorVoteAnyBlock(st, vote) ==
    IF st.round = NoRound
    THEN [st EXCEPT !.log = "Received vote outside of consensus round"]
    ELSE IF \E i \in 1..Len(st.round.votes) : st.round.votes[i].validator = vote.validator
    THEN [st EXCEPT !.log = "Validator already voted"]
    ELSE IF ~validateVoteSignature(vote)
    THEN [st EXCEPT !.log = "Invalid vote signature"]
    ELSE checkConsensusStatus(
            [st EXCEPT !.round.votes = Append(@, vote), !.log = "Validator vote received"])

handleValidatorVote(st, vote) ==
    IF st.round = NoRound
    THEN [st EXCEPT !.log = "Received vote outside of consensus round"]
    ELSE IF vote.blockHash # st.round.blockHash
    THEN [st EXCEPT !.log = "Received vote for different block"]
    ELSE IF \E i \in 1..Len(st.round.votes) : st.round.votes[i].validator = vote.validator
    THEN [st EXCEPT !.log = "Validator already voted"]
    ELSE IF ~validateVoteSignature(vote)
    THEN [st EXCEPT !.log = "Invalid vote signature"]
    ELSE checkConsensusStatus(
            [st EXCEPT !.round.votes = Append(@, vote), !.log = "Validator vote received"])

handleRoundTimeout(st) ==
    IF st.round = NoRound \/ st.round.status # "pending" THEN st
    ELSE finalizeRound([st EXCEPT !.log = "Consensus round timed out"], "rejected")

(* proposeBlock without the test of the round in progress *)
proposeBlockOverRound(st, block, proposer) ==
    IF ~isActive THEN [ok |-> FALSE, round |-> st.round]
    ELSE [ok |-> TRUE,
          round |-> [blockHash |-> block.hash, proposer |-> proposer, startTime |-> clock,
                     votes |-> <<>>, status |-> "pending", finalizedAt |-> 0]]

(* proposeBlock up to its first await: [ok, round] *)
proposeBlock(st, block, proposer) ==
    IF ~isActive THEN [ok |-> FALSE, round |-> st.round]
    ELSE IF st.round # NoRound THEN [ok |-> FALSE, round |-> st.round]
    ELSE [ok |-> TRUE,
          round |-> [blockHash |-> block.hash, proposer |-> proposer, startTime |-> clock,
                     votes |-> <<>>, status |-> "pending", finalizedAt |-> 0]]

(* what proposeBlock emits as 'roundStarted' once requestValidatorVotes has  *)
(* returned: this.currentRound as it is then                                 *)
roundStarted(st) == st.round

(* getConsensusStats().timeoutRate is the share of these among the recent rounds *)
timeoutRounds(history) ==
    Cardinality({i \in 1..Len(history) : history[i].status = "timeout"})

RoundsStarted == Len(consensusHistory) + (IF currentRound = NoRound THEN 0 ELSE 1)

(* the coordinator as the handlers see it; log is what a call logs last *)
CoordinatorState == [round |-> currentRound, history |-> consensusHistory, log |-> ""]

(* The manager's 'vote' event reaches every registered listener in turn *)
RECURSIVE emitVote(_, _, _)
emitVote(st, vote, listeners) ==
    IF listeners = 0 THEN st
    ELSE emitVote(handleValidatorVote(st, vote), vote, listeners - 1)

Install(st) ==
    /\ currentRound' = st.round
    /\ consensusHistory' = st.history

----------------------------------------------------------------------------
(* Transactions (Transaction.ts).  The class declares neither from nor      *)
(* gasUsed: on its instances both read as undefined.                        *)

Undefined == "undefined"
NullAddress == "null"

Addresses == <<"0x1234", "0x2345", "0x3456", "0x4567", "0x5678", "0x6789">>

AddressSet == {Addresses[i] : i \in 1..Len(Addresses)}

Transaction(nonce, gasPrice, gasLimit, to, value) ==
    [nonce |-> nonce, gasPrice |-> gasPrice, gasLimit |-> gasLimit, to |-> to,
     value |-> value, from |-> Undefined, gasUsed |-> Undefined]

TxHash(tx) ==
    [keccak |-> [nonce |-> tx.nonce, gasPrice |-> tx.gasPrice, gasLimit |-> tx.gasLimit,
                 to |-> tx.to, value |-> tx.value]]

isValidAddress(address) == address \in AddressSet

(* validate; the signature components and the data of the model's
   transactions are well-formed *)
TxValidate(tx) ==
    /\ ~(tx.gasLimit <= 0 \/ tx.gasPrice < 0 \/ tx.value < 0 \/ tx.nonce < 0)
    /\ (tx.to \notin {NullAddress, ""} => isValidAddress(tx.to))

----------------------------------------------------------------------------
(* StateManager *)

initializeGenesisState ==
    [a \in {Addresses[1], Addresses[2], Addresses[3]} |->
        [balance |-> IF a = Addresses[1] THEN 10 ELSE IF a = Addresses[2] THEN 5 ELSE 1,
         nonce |-> 0]]

EmptyStateRoot == [blank |-> 0]

(* updateStateRoot: the digest of the accounts sorted by address *)
StateRootOf(accts) == [digest |-> accts]

SetAccount(accts, address, account) ==
    [a \in DOMAIN accts \cup {address} |-> IF a = address THEN account ELSE accts[a]]

(* transfer: [ok, accounts]; both accounts are updated in place *)
transfer(accts, from, to, amount) ==
    IF from \notin DOMAIN accts \/ accts[from].balance < amount
    THEN [ok |-> FALSE, accounts |-> accts]
    ELSE LET debited == [accts EXCEPT ![from].balance = @ - amount]
             toAccount == IF to \in DOMAIN debited THEN debited[to]
                          ELSE [balance |-> 0, nonce |-> 0]
         IN [ok |-> TRUE,
             accounts |-> SetAccount(debited, to,
                                     [toAccount EXCEPT !.balance = @ + amount])]

(* processTransaction charging the gas before it tests the balance *)
processTransactionChargingFirst(accts, tx) ==
    LET unchanged == [ok |-> FALSE, accounts |-> accts, touched |-> FALSE]
    IN IF tx.from = Undefined THEN unchanged
       ELSE IF tx.from \notin DOMAIN accts THEN unchanged
       ELSE IF accts[tx.from].nonce # tx.nonce THEN unchanged
       ELSE LET gasCost == tx.gasPrice * tx.gasLimit
                charged == [accts EXCEPT ![tx.from].balance = @ - gasCost,
                                         ![tx.from].nonce = @ + 1]
            IN IF accts[tx.from].balance < tx.value + gasCost
               THEN [ok |-> FALSE, accounts |-> charged, touched |-> TRUE]
               ELSE LET moved == IF tx.to # NullAddress /\ tx.value > 0
                                 THEN transfer(charged, tx.from, tx.to, tx.value)
                                 ELSE [ok |-> TRUE, accounts |-> charged]
                    IN [ok |-> moved.ok, accounts |-> moved.accounts, touched |-> TRUE]

(* processTransaction: [ok, accounts, touched]; touched says that the state *)
(* root was recomputed.  Reading from of undefined throws: caught, false.   *)
processTransaction(accts, tx) ==
    LET unchanged == [ok |-> FALSE, accounts |-> accts, touched |-> FALSE]
    IN IF tx.from = Undefined THEN unchanged
       ELSE IF tx.from \notin DOMAIN accts THEN unchanged
       ELSE IF accts[tx.from].nonce # tx.nonce THEN unchanged
       ELSE LET gasCost == tx.gasPrice * tx.gasLimit
                totalCost == tx.value + gasCost
            IN IF accts[tx.from].balance < totalCost THEN unchanged
               ELSE LET moved == IF tx.to # NullAddress /\ tx.value > 0
                                 THEN transfer(accts, tx.from, tx.to, tx.value)
                                 ELSE [ok |-> TRUE, accounts |-> accts]
                    IN IF ~moved.ok THEN unchanged
                       ELSE [ok |-> TRUE,
                             accounts |-> [moved.accounts EXCEPT
                                              ![tx.from].balance = @ - gasCost,
                                              ![tx.from].nonce = @ + 1],
                             touched |-> TRUE]

(* the account setBalance and incrementNonce start from *)
AccountOf(accts, address) ==
    IF address \in DOMAIN accts THEN accts[address] ELSE [balance |-> 0, nonce |-> 0]

setBalance(accts, address, balance) ==
    SetAccount(accts, address, [AccountOf(accts, address) EXCEPT !.balance = balance])

incrementNonce(accts, address) ==
    SetAccount(accts, address, [AccountOf(accts, address) EXCEPT !.nonce = @ + 1])

(* String.prototype.toLowerCase on the addresses the callers write *)
CapitalAddress == "0xABCD"

toLowerCase(address) == IF address = CapitalAddress THEN "0xabcd" ELSE address

(* a getBalance that takes the account as setBalance does *)
getBalanceCreating(accts, root, address) ==
    LET normalizedAddress == toLowerCase(address)
        stored == SetAccount(accts, normalizedAddress, AccountOf(accts, normalizedAddress))
    IN [accounts |-> stored, currentStateRoot |-> StateRootOf(stored),
        value |-> AccountOf(accts, normalizedAddress).balance]

(* getBalance and getNonce: [accounts, currentStateRoot] after the call, and *)
(* the value it resolves to                                                  *)
getBalance(accts, root, address) ==
    [accounts |-> accts, currentStateRoot |-> root,
     value |-> IF toLowerCase(address) \in DOMAIN accts
               THEN accts[toLowerCase(address)].balance ELSE 0]

getNonce(accts, root, address) ==
    [accounts |-> accts, currentStateRoot |-> root,
     value |-> IF toLowerCase(address) \in DOMAIN accts
               THEN accts[toLowerCase(address)].nonce ELSE 0]

(* A StateSnapshot.  Its accounts are a copy of the Map, not of the account   *)
(* objects: aliased holds the addresses whose object is still the store's    *)
(* own.  atCreation keeps the values the accounts had when it was taken.      *)
NoSnapshot ==
    [taken |-> FALSE, accounts |-> [a \in {} |-> 0], stateRoot |-> EmptyStateRoot,
     aliased |-> {}, atCreation |-> [a \in {} |-> 0]]

createSnapshot(accts, root) ==
    [taken |-> TRUE, accounts |-> accts, stateRoot |-> root, aliased |-> DOMAIN accts,
     atCreation |-> accts]

(* restoreSnapshot: [accounts, currentStateRoot]; the Map is copied again *)
restoreSnapshot(snap) == [accounts |-> snap.accounts, currentStateRoot |-> snap.stateRoot]

(* the snapshot once the store's account objects hold the values of accts:  *)
(* transfer, processTransaction, setBalance and incrementNonce assign to the *)
(* fields of the object the Map holds                                        *)
MutatedInPlace(snap, accts) ==
    [snap EXCEPT !.accounts = [a \in DOMAIN @ |->
                                 IF a \in snap.aliased THEN accts[a] ELSE @[a]]]

(* the snapshot once the store holds new objects at these addresses *)
ObjectsReplaced(snap, addresses) == [snap EXCEPT !.aliased = @ \ addresses]

----------------------------------------------------------------------------
(* TransactionPool *)

PoolHas(pool, hash) == \E i \in 1..Len(pool) : TxHash(pool[i]) = hash

removeTransaction(pool, hash) == SelectSeq(pool, LAMBDA tx : TxHash(tx) # hash)

(* parseFloat of a bigint: the double nearest to it, ties to the even       *)
(* mantissa.  Every integer up to 2^53 is a double; from there to 2^54 only *)
(* the even ones are.  The model writes 2^53 + k as LargePrice + k, and     *)
(* never does arithmetic on such a number.                                  *)
parseFloat(n) ==
    LET k == n - LargePrice
    IN IF k <= 0 \/ k % 2 = 0 THEN n
       ELSE IF k % 4 = 1 THEN n - 1 ELSE n + 1

(* Number of a bigint rounds the same way *)
ToNumber(n) == parseFloat(n)

(* The comparators of the pool's two sorts: evictLowestFeeTransactions by   *)
(* ascending gas price, getPendingTransactions by descending gas price and *)
(* then ascending nonce                                                    *)
SortsBefore(order, a, b) ==
    IF order = "evict" THEN parseFloat(a.gasPrice) < parseFloat(b.gasPrice)
    ELSE \/ parseFloat(a.gasPrice) > parseFloat(b.gasPrice)
         \/ /\ parseFloat(a.gasPrice) = parseFloat(b.gasPrice)
            /\ ToNumber(a.nonce) < ToNumber(b.nonce)

(* Array.prototype.sort is stable: insertion keeps equal elements in order *)
RECURSIVE InsertSorted(_, _, _)
InsertSorted(sorted, x, order) ==
    IF sorted = <<>> THEN <<x>>
    ELSE IF SortsBefore(order, x, Head(sorted)) THEN <<x>> \o sorted
    ELSE <<Head(sorted)>> \o InsertSorted(Tail(sorted), x, order)

RECURSIVE StableSort(_, _)
StableSort(seq, order) ==
    IF seq = <<>> THEN <<>>
    ELSE InsertSorted(StableSort(SubSeq(seq, 1, Len(seq) - 1), order), seq[Len(seq)], order)

evictLowestFeeTransactions(pool) ==
    LET byPrice == StableSort(pool, "evict")
        removeCount == Len(pool) \div 10
        removed == {TxHash(byPrice[i]) : i \in 1..removeCount}
    IN SelectSeq(pool, LAMBDA tx : TxHash(tx) \notin removed)

(* addTransaction without the look-up of the hash among the pending *)
addTransactionAgain(maxPoolSize, pool, tx) ==
    IF ~TxValidate(tx) THEN [ok |-> FALSE, pool |-> pool]
    ELSE LET room == IF Len(pool) >= maxPoolSize
                     THEN evictLowestFeeTransactions(pool) ELSE pool
         IN [ok |-> TRUE, pool |-> Append(room, tx)]

(* addTransaction of a pool built with this MAX_POOL_SIZE: [ok, pool] *)
addTransactionWithin(maxPoolSize, pool, tx) ==
    IF ~TxValidate(tx) THEN [ok |-> FALSE, pool |-> pool]
    ELSE IF PoolHas(pool, TxHash(tx)) THEN [ok |-> FALSE, pool |-> pool]
    ELSE LET room == IF Len(pool) >= maxPoolSize
                     THEN evictLowestFeeTransactions(pool) ELSE pool
         IN [ok |-> TRUE, pool |-> Append(room, tx)]

(* addTransaction: [ok, pool] *)
addTransaction(pool, tx) == addTransactionWithin(MAX_POOL_SIZE, pool, tx)

getPendingTransactions(pool, limit) ==
    LET ordered == StableSort(pool, "select")
    IN SubSeq(ordered, 1, IF Len(ordered) < limit THEN Len(ordered) ELSE limit)

(* getTransactionsByAddress: [ok, transactions]; not ok when it throws, which *)
(* it does on reading from of a transaction that has none                     *)
RECURSIVE getTransactionsByAddress(_, _)
getTransactionsByAddress(pool, address) ==
    IF pool = <<>> THEN [ok |-> TRUE, transactions |-> <<>>]
    ELSE IF Head(pool).from = Undefined THEN [ok |-> FALSE, transactions |-> <<>>]
    ELSE LET rest == getTransactionsByAddress(Tail(pool), address)
             mine == Head(pool).from = address \/ Head(pool).to = address
         IN [ok |-> rest.ok,
             transactions |-> IF mine THEN <<Head(pool)>> \o rest.transactions
                              ELSE rest.transactions]

(* the reduce of getPendingNonce, from 0n *)
RECURSIVE MaxNonceOf(_)
MaxNonceOf(transactions) ==
    IF transactions = <<>> THEN 0
    ELSE LET max == MaxNonceOf(SubSeq(transactions, 1, Len(transactions) - 1))
             tx == transactions[Len(transactions)]
         IN IF tx.nonce > max THEN tx.nonce ELSE max

(* getPendingNonce: [ok, nonce]; it throws when getTransactionsByAddress does *)
getPendingNonce(pool, address) ==
    LET found == getTransactionsByAddress(pool, address)
    IN IF ~found.ok THEN [ok |-> FALSE, nonce |-> 0]
       ELSE IF found.transactions = <<>> THEN [ok |-> TRUE, nonce |-> 0]
       ELSE [ok |-> TRUE, nonce |-> MaxNonceOf(found.transactions) + 1]

----------------------------------------------------------------------------
(* Block *)

ZeroHash == [zero |-> 64]
ZeroAddress == "0x0000"
EmptyTrieRoot == [trie |-> "0x56e8"]
GenesisNonce == 66

calculateHash(header) == [keccak |-> header]

Block(header, transactions) ==
    [header |-> header, transactions |-> transactions, hash |-> calculateHash(header)]

BlockValidate(block) ==
    /\ block.header.number >= 0
    /\ block.header.timestamp > 0
    /\ ~(block.header.gasLimit <= 0 \/ block.header.gasUsed > block.header.gasLimit)
    /\ \A i \in 1..Len(block.transactions) : TxValidate(block.transactions[i])
    /\ calculateHash(block.header) = block.hash

(* createGenesis numbering its block 1 *)
createGenesisNumbered(now) ==
    Block([parentHash |-> ZeroHash, beneficiary |-> ZeroAddress,
           stateRoot |-> EmptyTrieRoot, transactionsRoot |-> EmptyTrieRoot,
           number |-> 1, gasLimit |-> BlockGasLimit, gasUsed |-> 0,
           timestamp |-> now, nonce |-> GenesisNonce], <<>>)

createGenesis(now) ==
    Block([parentHash |-> ZeroHash, beneficiary |-> ZeroAddress,
           stateRoot |-> EmptyTrieRoot, transactionsRoot |-> EmptyTrieRoot,
           number |-> 0, gasLimit |-> BlockGasLimit, gasUsed |-> 0,
           timestamp |-> now, nonce |-> GenesisNonce], <<>>)

----------------------------------------------------------------------------
(* Chain *)

ChainState ==
    [blocks |-> blocks, blocksByNumber |-> blocksByNumber, currentHeight |-> currentHeight,
     accounts |-> accounts, currentStateRoot |-> currentStateRoot,
     pendingTransactions |-> pendingTransactions, appliedCount |-> appliedCount]

InstallChain(st) ==
    /\ blocks' = st.blocks
    /\ blocksByNumber' = st.blocksByNumber
    /\ currentHeight' = st.currentHeight
    /\ accounts' = st.accounts
    /\ currentStateRoot' = st.currentStateRoot
    /\ pendingTransactions' = st.pendingTransactions
    /\ appliedCount' = st.appliedCount
    /\ snapshot' = MutatedInPlace(snapshot, st.accounts)

(* getLatestBlock; genesisBlock is the block the constructor put at number 0 *)
getLatestBlock(st) ==
    IF st.currentHeight \in DOMAIN st.blocksByNumber THEN st.blocksByNumber[st.currentHeight]
    ELSE st.blocksByNumber[0]

selectValidator(st) == Addresses[(st.currentHeight % Len(Addresses)) + 1]

calculateTransactionsRoot(transactions) ==
    IF transactions = <<>> THEN EmptyTrieRoot
    ELSE IF Len(transactions) = 1 THEN TxHash(transactions[1])
    ELSE [merkle |-> [i \in 1..Len(transactions) |-> TxHash(transactions[i])]]

(* calculateGasUsed adds tx.gasUsed to a bigint: undefined makes it throw *)
RECURSIVE calculateGasUsed(_)
calculateGasUsed(transactions) ==
    IF transactions = <<>> THEN [ok |-> TRUE, gas |-> 0]
    ELSE LET rest == calculateGasUsed(Tail(transactions))
         IN IF ~rest.ok \/ Head(transactions).gasUsed = Undefined
            THEN [ok |-> FALSE, gas |-> 0]
            ELSE [ok |-> TRUE, gas |-> Head(transactions).gasUsed + rest.gas]

(* the loop of addBlock over the block's transactions *)
RECURSIVE processTransactions(_, _)
processTransactions(st, transactions) ==
    IF transactions = <<>> THEN st
    ELSE LET tx == Head(transactions)
             done == processTransaction(st.accounts, tx)
         IN processTransactions(
                [st EXCEPT !.accounts = done.accounts,
                           !.currentStateRoot = IF done.touched
                                                THEN StateRootOf(done.accounts) ELSE @,
                           !.pendingTransactions = removeTransaction(@, TxHash(tx)),
                           !.appliedCount = IF done.ok
                                            THEN [@ EXCEPT ![tx.from] = @ + 1] ELSE @],
                Tail(transactions))

(* addBlock storing again a block whose hash it holds *)
addBlockOverwriting(st, block) ==
    IF ~BlockValidate(block) THEN [ok |-> FALSE, chain |-> st]
    ELSE IF block.header.parentHash \notin DOMAIN st.blocks /\ block.header.number > 0
    THEN [ok |-> FALSE, chain |-> st]
    ELSE IF block.hash \notin DOMAIN st.blocks /\ block.header.number # st.currentHeight + 1
    THEN [ok |-> FALSE, chain |-> st]
    ELSE LET applied == processTransactions(st, block.transactions)
         IN [ok |-> TRUE,
             chain |-> [applied EXCEPT
                 !.blocks = [h \in DOMAIN @ \cup {block.hash} |->
                                IF h = block.hash THEN block ELSE @[h]],
                 !.blocksByNumber = [n \in DOMAIN @ \cup {block.header.number} |->
                                IF n = block.header.number THEN block ELSE @[n]],
                 !.currentHeight = block.header.number]]

(* addBlock with the test of the block number after the loop *)
addBlockCheckingLast(st, block) ==
    LET refused == [ok |-> FALSE, chain |-> st]
    IN IF ~BlockValidate(block) THEN refused
       ELSE IF block.hash \in DOMAIN st.blocks THEN refused
       ELSE IF block.header.parentHash \notin DOMAIN st.blocks /\ block.header.number > 0
       THEN refused
       ELSE LET applied == processTransactions(st, block.transactions)
            IN IF block.header.number # st.currentHeight + 1
               THEN [ok |-> FALSE, chain |-> applied]
               ELSE [ok |-> TRUE,
                     chain |-> [applied EXCEPT
                         !.blocks = [h \in DOMAIN @ \cup {block.hash} |->
                                        IF h = block.hash THEN block ELSE @[h]],
                         !.blocksByNumber = [n \in DOMAIN @ \cup {block.header.number} |->
                                        IF n = block.header.number THEN block ELSE @[n]],
                         !.currentHeight = block.header.number]]

(* addBlock: [ok, chain] *)
addBlock(st, block) ==
    LET refused == [ok |-> FALSE, chain |-> st]
    IN IF ~BlockValidate(block) THEN refused
       ELSE IF block.hash \in DOMAIN st.blocks THEN refused
       ELSE IF block.header.parentHash \notin DOMAIN st.blocks /\ block.header.number > 0
       THEN refused
       ELSE IF block.header.number # st.currentHeight + 1 THEN refused
       ELSE LET applied == processTransactions(st, block.transactions)
            IN [ok |-> TRUE,
                chain |-> [applied EXCEPT
                    !.blocks = [h \in DOMAIN @ \cup {block.hash} |->
                                   IF h = block.hash THEN block ELSE @[h]],
                    !.blocksByNumber = [n \in DOMAIN @ \cup {block.header.number} |->
                                   IF n = block.header.number THEN block ELSE @[n]],
                    !.currentHeight = block.header.number]]

(* the block produceBlock builds: [ok, block]; not ok when building throws *)
buildBlock(st, now, nonce) ==
    LET pendingTxs == getPendingTransactions(st.pendingTransactions, PendingLimit)
        gasUsed == calculateGasUsed(pendingTxs)
        header == [parentHash |-> getLatestBlock(st).hash,
                   beneficiary |-> selectValidator(st),
                   stateRoot |-> st.currentStateRoot,
                   transactionsRoot |-> calculateTransactionsRoot(pendingTxs),
                   number |-> st.currentHeight + 1, gasLimit |-> BlockGasLimit,
                   gasUsed |-> gasUsed.gas, timestamp |-> now, nonce |-> nonce]
    IN [ok |-> gasUsed.ok, block |-> Block(header, pendingTxs)]

(* produceBlock: the chain after one tick of the block production interval *)
produceBlock(st, now, nonce) ==
    LET built == buildBlock(st, now, nonce)
    IN IF built.ok THEN addBlock(st, built.block).chain ELSE st

(* reorg: logs a warning and resolves to false *)
reorg(st, targetHash) ==
    [state |-> st, returned |-> FALSE, threw |-> FALSE, error |-> Undefined]

----------------------------------------------------------------------------
(* Inputs *)

TxInputs ==
    {Transaction(0, 1, 1, Addresses[2], 1),
     Transaction(0, 2, 1, NullAddress, 0),
     Transaction(0, 1, 0, Addresses[2], 1)}

ForeignBlock ==
    Block([parentHash |-> [foreign |-> 1], beneficiary |-> Addresses[6],
           stateRoot |-> EmptyStateRoot, transactionsRoot |-> EmptyTrieRoot,
           number |-> 1, gasLimit |-> BlockGasLimit, gasUsed |-> 0,
           timestamp |-> 1, nonce |-> 1], <<>>)

(* what a caller hands to proposeBlock: the block the producer would build
   on the tip now, with the validator whose turn it is *)
Proposals ==
    {[block |-> buildBlock(ChainState, clock, 1).block, proposer |-> selectValidator(ChainState)]}

RoundsOfState == {consensusHistory[i] : i \in 1..Len(consensusHistory)}
                 \cup (IF currentRound = NoRound THEN {} ELSE {currentRound})

(* votes name the block of a round, pending or archived, or a block that was
   never proposed *)
VoteHashes == {round.blockHash : round \in RoundsOfState} \cup {ForeignBlock.hash}

(* a vote with an empty signature is offered for the pending round's block *)
VoteInputs ==
    {vote \in [blockHash : VoteHashes, validator : ActiveIds, vote : VoteKinds,
               signature : {"", "sig"}] :
        ~validateVoteSignature(vote) => vote.blockHash = currentRound.blockHash}

----------------------------------------------------------------------------
(* Steps of the coordinator *)

initialize ==
    /\ voteListeners < MaxListeners
    /\ voteListeners' = voteListeners + 1
    /\ isActive' = TRUE
    /\ UNCHANGED <<validatorInfos, config, currentRound, consensusHistory, clock, timers,
                   calls, requestErrors>>
    /\ UNCHANGED chainVars

(* a call of proposeBlock, up to its suspension in requestValidatorVotes *)
proposeBlockCalled(block, proposer) ==
    LET started == proposeBlock(CoordinatorState, block, proposer)
    IN /\ currentRound' = started.round
       /\ IF started.ok
          THEN /\ clock' = clock + 1
               /\ calls' = calls \cup {clock}
          ELSE UNCHANGED <<clock, calls>>
       /\ UNCHANGED requestErrors
       /\ UNCHANGED <<validatorInfos, config, isActive, voteListeners, consensusHistory,
                      timers>>
       /\ UNCHANGED chainVars

callProposeBlock(block, proposer) ==
    /\ RoundsStarted < MaxRounds
    /\ proposeBlockCalled(block, proposer)

(* every requestBlockVote of the loop in requestValidatorVotes has settled, by
   a value or by an error: proposeBlock resumes and arms the round's timer *)
requestValidatorVotesReturns(call, outcomes) ==
    LET requested == requestValidatorVotes(getActiveValidators, outcomes)
    IN /\ call \in calls
       /\ calls' = calls \ {call}
       /\ requestErrors' = requested.logged
       /\ timers' = IF requested.threw THEN timers ELSE timers \cup {call}
       /\ UNCHANGED <<validatorInfos, config, isActive, voteListeners, currentRound,
                      consensusHistory, clock>>
       /\ UNCHANGED chainVars

(* every validator's voteOnBlock returns *)
AllReturn == [id \in ActiveIds |-> "returns"]

(* the manager emits 'vote' *)
validatorVotes(vote) ==
    /\ voteListeners > 0
    /\ Install(emitVote(CoordinatorState, vote, voteListeners))
    /\ UNCHANGED <<validatorInfos, config, isActive, voteListeners, clock, timers, calls, requestErrors>>
    /\ UNCHANGED chainVars

(* the timeout callback, were it to drop the pending transactions with the round *)
roundTimeoutEmptiesPool(timer) ==
    /\ timer \in timers
    /\ timers' = timers \ {timer}
    /\ Install(handleRoundTimeout(CoordinatorState))
    /\ pendingTransactions' = IF currentRound # NoRound THEN <<>> ELSE pendingTransactions
    /\ UNCHANGED <<validatorInfos, config, isActive, voteListeners, clock, calls, requestErrors>>
    /\ UNCHANGED <<blocks, blocksByNumber, currentHeight, accounts, currentStateRoot,
                   snapshot, appliedCount, addBlockCalls>>

(* the callback proposeBlock handed to setTimeout runs *)
roundTimeoutFires(timer) ==
    /\ timer \in timers
    /\ timers' = timers \ {timer}
    /\ Install(handleRoundTimeout(CoordinatorState))
    /\ UNCHANGED <<validatorInfos, config, isActive, voteListeners, clock, calls, requestErrors>>
    /\ UNCHANGED chainVars

stop ==
    /\ isActive' = FALSE
    /\ Install(IF currentRound # NoRound THEN handleRoundTimeout(CoordinatorState)
               ELSE CoordinatorState)
    /\ UNCHANGED <<validatorInfos, config, voteListeners, clock, timers, calls, requestErrors>>
    /\ UNCHANGED chainVars

(* a validator emits its vote: the manager counts it and passes it on *)
validatorVotesCounted(vote) ==
    /\ \A i \in 1..Len(validatorInfos) :
          validatorInfos[i].id = vote.validator => validatorInfos[i].totalVotes < MaxVotes
    /\ validatorInfos' = countVote(validatorInfos, vote)
    /\ Install(emitVote(CoordinatorState, vote, voteListeners))
    /\ UNCHANGED <<config, isActive, voteListeners, clock, timers, calls, requestErrors>>
    /\ UNCHANGED chainVars

(* the manager's five-minute interval fires *)
reputationInterval(inactiveDays) ==
    /\ validatorInfos' = updateValidatorReputations(validatorInfos, inactiveDays)
    /\ UNCHANGED <<config, isActive, voteListeners, currentRound, consensusHistory, clock,
                   timers, calls, requestErrors>>
    /\ UNCHANGED chainVars

----------------------------------------------------------------------------
(* Steps of the chain *)

(* Chain.initialize: StateManager.initialize *)
chainInitialize ==
    /\ accounts' = [a \in DOMAIN accounts \cup DOMAIN initializeGenesisState |->
                       IF a \in DOMAIN initializeGenesisState
                       THEN initializeGenesisState[a] ELSE accounts[a]]
    /\ currentStateRoot' = StateRootOf(accounts')
    /\ snapshot' = ObjectsReplaced(snapshot, DOMAIN initializeGenesisState)
    /\ UNCHANGED <<blocks, blocksByNumber, currentHeight, pendingTransactions, appliedCount,
                   addBlockCalls>>
    /\ UNCHANGED consensusVars

chainAddTransaction(tx) ==
    /\ pendingTransactions' = addTransaction(pendingTransactions, tx).pool
    /\ UNCHANGED <<blocks, blocksByNumber, currentHeight, accounts, currentStateRoot,
                   snapshot, appliedCount, addBlockCalls>>
    /\ UNCHANGED consensusVars

(* the block production interval fires *)
blockProductionTick(nonce) ==
    /\ currentHeight < MaxHeight
    /\ InstallChain(produceBlock(ChainState, clock, nonce))
    /\ UNCHANGED addBlockCalls
    /\ UNCHANGED consensusVars

----------------------------------------------------------------------------
(* Calls on a StateManager by its owner *)

(* a transaction object that carries its sender *)
StoreTx(from, nonce, gasPrice, gasLimit, to, value) ==
    [Transaction(nonce, gasPrice, gasLimit, to, value) EXCEPT !.from = from]

StoreTxInputs ==
    {StoreTx(from, nonce, 1, 1, to, value) :
        from \in {Addresses[2], Addresses[4]}, nonce \in 0..(MaxApplied - 1),
        to \in {Addresses[2], Addresses[3], Addresses[4], NullAddress},
        value \in {-3, 0, 2, 6}}

TransferInputs ==
    [from : {Addresses[2], Addresses[3]}, to : {Addresses[2], Addresses[3], Addresses[4]},
     amount : {2, -2}]

(* a call is made and the time passes; what it leaves alone *)
storeCall ==
    /\ clock <= MaxCalls
    /\ clock' = clock + 1
    /\ UNCHANGED <<validatorInfos, config, isActive, voteListeners, currentRound,
                   consensusHistory, timers, calls, requestErrors>>
    /\ UNCHANGED <<blocks, blocksByNumber, currentHeight, pendingTransactions, addBlockCalls>>

callProcessTransaction(tx) ==
    LET done == processTransaction(accounts, tx)
    IN /\ accounts' = done.accounts
       /\ currentStateRoot' = IF done.touched THEN StateRootOf(done.accounts)
                               ELSE currentStateRoot
       /\ snapshot' = MutatedInPlace(snapshot, done.accounts)
       /\ appliedCount' = IF done.ok THEN [appliedCount EXCEPT ![tx.from] = @ + 1]
                           ELSE appliedCount
       /\ storeCall

callTransfer(from, to, amount) ==
    LET done == transfer(accounts, from, to, amount)
    IN /\ accounts' = done.accounts
       /\ currentStateRoot' = IF done.ok THEN StateRootOf(done.accounts)
                               ELSE currentStateRoot
       /\ snapshot' = MutatedInPlace(snapshot, done.accounts)
       /\ UNCHANGED appliedCount
       /\ storeCall

callSetBalance(address, balance) ==
    /\ accounts' = setBalance(accounts, address, balance)
    /\ currentStateRoot' = StateRootOf(accounts')
    /\ snapshot' = MutatedInPlace(snapshot, accounts')
    /\ UNCHANGED appliedCount
    /\ storeCall

callIncrementNonce(address) ==
    /\ accounts' = incrementNonce(accounts, address)
    /\ currentStateRoot' = StateRootOf(accounts')
    /\ snapshot' = MutatedInPlace(snapshot, accounts')
    /\ UNCHANGED appliedCount
    /\ storeCall

(* the addresses the owner reads: those of the program and one in capitals *)
ReadAddresses == AddressSet \cup {CapitalAddress}

callGetBalance(address) ==
    LET read == getBalance(accounts, currentStateRoot, address)
    IN /\ accounts' = read.accounts
       /\ currentStateRoot' = read.currentStateRoot
       /\ snapshot' = MutatedInPlace(snapshot, read.accounts)
       /\ UNCHANGED appliedCount
       /\ storeCall

callGetNonce(address) ==
    LET read == getNonce(accounts, currentStateRoot, address)
    IN /\ accounts' = read.accounts
       /\ currentStateRoot' = read.currentStateRoot
       /\ snapshot' = MutatedInPlace(snapshot, read.accounts)
       /\ UNCHANGED appliedCount
       /\ storeCall

callCreateSnapshot ==
    /\ snapshot' = createSnapshot(accounts, currentStateRoot)
    /\ UNCHANGED <<accounts, currentStateRoot, appliedCount>>
    /\ storeCall

callRestoreSnapshot ==
    /\ snapshot.taken
    /\ accounts' = restoreSnapshot(snapshot).accounts
    /\ currentStateRoot' = restoreSnapshot(snapshot).currentStateRoot
    /\ snapshot' = [snapshot EXCEPT !.aliased = DOMAIN snapshot.accounts]
    /\ UNCHANGED appliedCount
    /\ storeCall

----------------------------------------------------------------------------
(* Calls of Chain.addBlock *)

(* the transactions of an offered block: none, an instance of Transaction, a
   transaction carrying a sender that can pay it, and one carrying a nonce its
   sender has not reached *)
BlockTransactions ==
    {<<>>,
     <<Transaction(0, 1, 1, Addresses[2], 1)>>,
     <<StoreTx(Addresses[2], 0, 1, 1, Addresses[3], 1)>>,
     <<StoreTx(Addresses[3], 1, 1, 1, Addresses[2], 1)>>}

(* the blocks offered to addBlock: built on any stored block, numbered after
   it or after the tip, within or over the gas limit; a block on an unknown
   parent; and the stored blocks once more *)
BlockInputs ==
    UNION {{Block([parentHash |-> parent.hash, beneficiary |-> selectValidator(ChainState),
                   stateRoot |-> currentStateRoot,
                   transactionsRoot |-> calculateTransactionsRoot(transactions),
                   number |-> number, gasLimit |-> BlockGasLimit, gasUsed |-> gasUsed,
                   timestamp |-> clock, nonce |-> 1], transactions) :
              number \in {parent.header.number + 1, currentHeight + 1},
              transactions \in BlockTransactions,
              gasUsed \in {0, BlockGasLimit + 1}} :
           parent \in {blocks[h] : h \in DOMAIN blocks}}
    \cup {ForeignBlock}
    \cup {blocks[h] : h \in DOMAIN blocks}

callAddBlock(block) ==
    /\ currentHeight < MaxHeight
    /\ InstallChain(addBlock(ChainState, block).chain)
    /\ UNCHANGED addBlockCalls
    /\ UNCHANGED consensusVars

(* the hashes a reorganization can be asked for: stored blocks, a block that *)
(* is not stored, and the zero hash                                          *)
ReorgTargets == DOMAIN blocks \cup {ForeignBlock.hash, ZeroHash}

(* a caller of the public reorg *)
callReorg(targetHash) ==
    /\ InstallChain(reorg(ChainState, targetHash).state)
    /\ UNCHANGED addBlockCalls
    /\ UNCHANGED consensusVars

----------------------------------------------------------------------------
(* Chain.addBlock from await to await.  It awaits processTransaction and     *)
(* removeTransaction for each transaction of the block; whatever else has    *)
(* been called runs while it is suspended.                                   *)

(* the blocks offered at the tip, by the transactions they carry *)
AwaitedTransactions ==
    {<<Transaction(0, 1, 1, Addresses[2], 1)>>,
     <<Transaction(0, 1, 1, Addresses[2], 1), Transaction(0, 2, 1, NullAddress, 0)>>,
     <<StoreTx(Addresses[2], 0, 1, 1, Addresses[3], 1)>>}

AwaitedBlocks ==
    {Block([parentHash |-> getLatestBlock(ChainState).hash,
            beneficiary |-> selectValidator(ChainState),
            stateRoot |-> currentStateRoot,
            transactionsRoot |-> calculateTransactionsRoot(transactions),
            number |-> currentHeight + 1, gasLimit |-> BlockGasLimit, gasUsed |-> 0,
            timestamp |-> clock, nonce |-> 1], transactions) :
        transactions \in AwaitedTransactions}

(* the chain once processTransaction(tx) has run *)
processed(st, tx) ==
    LET done == processTransaction(st.accounts, tx)
    IN [st EXCEPT !.accounts = done.accounts,
                  !.currentStateRoot = IF done.touched THEN StateRootOf(done.accounts) ELSE @,
                  !.appliedCount = IF done.ok THEN [@ EXCEPT ![tx.from] = @ + 1] ELSE @]

(* addBlock is called: it passes its tests, calls processTransaction on the  *)
(* first transaction and is suspended                                        *)
addBlockBegins(block) ==
    /\ Cardinality(addBlockCalls) < MaxInFlight
    /\ currentHeight < MaxHeight
    /\ block.transactions # <<>>
    /\ addBlock(ChainState, block).ok
    /\ InstallChain(processed(ChainState, block.transactions[1]))
    /\ addBlockCalls' = addBlockCalls \cup {[block |-> block, processed |-> 1, removed |-> 0]}
    /\ UNCHANGED consensusVars

(* resumed after processTransaction, it calls removeTransaction *)
addBlockRemoves(call) ==
    /\ call.removed < call.processed
    /\ pendingTransactions' =
          removeTransaction(pendingTransactions, TxHash(call.block.transactions[call.processed]))
    /\ addBlockCalls' = (addBlockCalls \ {call}) \cup {[call EXCEPT !.removed = @ + 1]}
    /\ UNCHANGED <<blocks, blocksByNumber, currentHeight, accounts, currentStateRoot,
                   snapshot, appliedCount>>
    /\ UNCHANGED consensusVars

(* resumed after removeTransaction, it calls processTransaction on the next *)
addBlockProcesses(call) ==
    /\ call.removed = call.processed
    /\ call.processed < Len(call.block.transactions)
    /\ InstallChain(processed(ChainState, call.block.transactions[call.processed + 1]))
    /\ addBlockCalls' = (addBlockCalls \ {call}) \cup {[call EXCEPT !.processed = @ + 1]}
    /\ UNCHANGED consensusVars

(* resumed after the last removeTransaction, it stores the block and returns *)
addBlockStores(call) ==
    /\ call.removed = Len(call.block.transactions)
    /\ blocks' = [h \in DOMAIN blocks \cup {call.block.hash} |->
                     IF h = call.block.hash THEN call.block ELSE blocks[h]]
    /\ blocksByNumber' = [n \in DOMAIN blocksByNumber \cup {call.block.header.number} |->
                     IF n = call.block.header.number THEN call.block ELSE blocksByNumber[n]]
    /\ currentHeight' = call.block.header.number
    /\ addBlockCalls' = addBlockCalls \ {call}
    /\ UNCHANGED <<accounts, currentStateRoot, pendingTransactions, snapshot, appliedCount>>
    /\ UNCHANGED consensusVars

----------------------------------------------------------------------------
(* Calls on a TransactionPool by its owner *)

(* a recipient that is no address *)
MalformedAddress == "0xZZ"

(* the pools the calls before have left, each of n transactions in the order *)
(* of their admission: of gas prices 1..n, the same admitted from the        *)
(* highest, of one gas price under the nonces 0..n-1, the same admitted from *)
(* the highest, of gas prices from 2^53, and of transactions that carry a    *)
(* sender                                                                    *)
PoolKinds == {"ascending", "descending", "tied", "tiedReversed", "large", "senders"}

PoolOf(kind, n) ==
    [i \in 1..n |->
        CASE kind = "ascending" -> Transaction(0, i, 1, Addresses[2], 1)
          [] kind = "descending" -> Transaction(0, n + 1 - i, 1, Addresses[2], 1)
          [] kind = "tied" -> Transaction(i - 1, 1, 1, Addresses[2], 1)
          [] kind = "tiedReversed" -> Transaction(n - i, 1, 1, Addresses[2], 1)
          [] kind = "large" ->
                IF i = 1 THEN Transaction(1, LargePrice + 1, 1, Addresses[2], 1)
                ELSE IF i = 2 THEN Transaction(0, LargePrice, 1, Addresses[2], 1)
                ELSE Transaction(0, LargePrice + 2 * i, 1, Addresses[2], 1)
          [] OTHER ->
                IF i % 2 = 1 THEN StoreTx(Addresses[2], i, i, 1, Addresses[4], 1)
                ELSE StoreTx(Addresses[4], i + 2, i, 1, Addresses[2], 1)]

PoolInputs == {PoolOf(kind, n) : kind \in PoolKinds, n \in 0..MaxPool}

(* what is offered to addTransaction: a price over those of the pool, the     *)
(* first transaction of an ascending pool, a transaction that carries a       *)
(* sender, and transactions that validate refuses                             *)
PoolTxInputs ==
    {Transaction(0, MaxPool + 1, 1, Addresses[2], 1),
     Transaction(0, 1, 1, Addresses[2], 1),
     StoreTx(Addresses[4], 0, 2, 1, Addresses[3], 1),
     Transaction(0, 1, 0, Addresses[2], 1),
     Transaction(0, 1, 1, Addresses[2], -1),
     Transaction(0, 1, 1, MalformedAddress, 1)}

(* a call is made and the time passes; what it leaves alone *)
poolCall ==
    /\ clock <= MaxCalls
    /\ clock' = clock + 1
    /\ UNCHANGED <<validatorInfos, config, isActive, voteListeners, currentRound,
                   consensusHistory, timers, calls, requestErrors>>
    /\ UNCHANGED <<blocks, blocksByNumber, currentHeight, accounts, currentStateRoot,
                   snapshot, appliedCount, addBlockCalls>>

callAddTransaction(tx) ==
    /\ pendingTransactions' = addTransaction(pendingTransactions, tx).pool
    /\ poolCall

callRemoveTransaction(hash) ==
    /\ pendingTransactions' = removeTransaction(pendingTransactions, hash)
    /\ poolCall

callClear ==
    /\ pendingTransactions' = <<>>
    /\ poolCall

----------------------------------------------------------------------------
(* Specifications *)

InitChain ==
    /\ blocks = [h \in {createGenesis(clock).hash} |-> createGenesis(clock)]
    /\ blocksByNumber = [n \in {0} |-> createGenesis(clock)]
    /\ currentHeight = 0
    /\ accounts = initializeGenesisState
    /\ currentStateRoot = EmptyStateRoot
    /\ pendingTransactions = <<>>
    /\ snapshot = NoSnapshot
    /\ appliedCount = [a \in AddressSet |-> 0]
    /\ addBlockCalls = {}

InitCoordinator ==
    /\ isActive = FALSE
    /\ voteListeners = 0
    /\ currentRound = NoRound
    /\ consensusHistory = <<>>
    /\ clock = 1
    /\ timers = {}
    /\ calls = {}
    /\ requestErrors = {}

(* the registry as initializeValidators leaves it, under the configured counts *)
InitProgram ==
    /\ validatorInfos = initializeValidators(1)
    /\ config = defaultConfig
    /\ InitCoordinator
    /\ InitChain

(* that, or a registry of two under a configuration for two *)
Init ==
    \/ InitProgram
    \/ /\ validatorInfos = initializeValidators(2)
       /\ config = [validatorCount |-> 2, requiredVotes |-> 2]
       /\ InitCoordinator
       /\ InitChain

NextCoordinator ==
    \/ initialize
    \/ \E p \in Proposals : callProposeBlock(p.block, p.proposer)
    \/ \E call \in calls : requestValidatorVotesReturns(call, AllReturn)
    \/ \E vote \in VoteInputs : validatorVotes(vote)
    \/ \E timer \in timers : roundTimeoutFires(timer)
    \/ stop

NextChain ==
    \/ chainInitialize
    \/ \E tx \in TxInputs : chainAddTransaction(tx)
    \/ \E nonce \in 1..MaxNonce : blockProductionTick(nonce)

Next == NextCoordinator

Spec == Init /\ [][Next]_vars

(* the chain, and beside it the coordinator through its first round *)
NextSystem ==
    \/ initialize
    \/ \E p \in Proposals : consensusHistory = <<>> /\ callProposeBlock(p.block, p.proposer)
    \/ \E call \in calls : requestValidatorVotesReturns(call, AllReturn)
    \/ \E vote \in VoteInputs : validatorVotes(vote)
    \/ \E timer \in timers : roundTimeoutFires(timer)
    \/ stop
    \/ NextChain

SpecSystem == InitProgram /\ [][NextSystem]_vars

(* the six validators of the README, under the configured counts *)
InitQuorum ==
    /\ validatorInfos = initializeValidators(ValidatorCount)
    /\ config = defaultConfig
    /\ InitCoordinator
    /\ InitChain

(* the first round of that network, and the votes it can count *)
NextQuorum ==
    \/ initialize
    \/ \E p \in Proposals : consensusHistory = <<>> /\ callProposeBlock(p.block, p.proposer)
    \/ \E call \in calls : requestValidatorVotesReturns(call, AllReturn)
    \/ \E vote \in VoteInputs :
          /\ vote.blockHash = currentRound.blockHash
          /\ validateVoteSignature(vote)
          /\ validatorVotes(vote)
    \/ \E timer \in timers : roundTimeoutFires(timer)

SpecQuorum == InitQuorum /\ [][NextQuorum]_vars

(* the chain, its production interval and the callers of addBlock *)
NextLedger ==
    \/ NextChain
    \/ \E block \in BlockInputs : callAddBlock(block)
    \/ \E targetHash \in ReorgTargets : callReorg(targetHash)

SpecLedger == InitProgram /\ [][NextLedger]_vars

(* a StateManager and the calls of its owner *)
NextStore ==
    \/ chainInitialize
    \/ \E tx \in StoreTxInputs : callProcessTransaction(tx)
    \/ \E t \in TransferInputs : callTransfer(t.from, t.to, t.amount)
    \/ \E address \in {Addresses[3], Addresses[5]}, balance \in {0, 4} :
          callSetBalance(address, balance)
    \/ callIncrementNonce(Addresses[2])
    \/ \E address \in ReadAddresses : callGetBalance(address)
    \/ \E address \in ReadAddresses : callGetNonce(address)
    \/ callCreateSnapshot
    \/ callRestoreSnapshot

SpecStore == InitProgram /\ [][NextStore]_vars

(* the chain, its production interval and calls of addBlock that are suspended *)
(* at their awaits while transactions are submitted                            *)
NextAwaits ==
    \/ chainInitialize
    \/ \E tx \in TxInputs : chainAddTransaction(tx)
    \/ \E nonce \in 1..MaxNonce : addBlockCalls = {} /\ blockProductionTick(nonce)
    \/ \E block \in AwaitedBlocks : addBlockCalls = {} /\ addBlockBegins(block)
    \/ \E call \in addBlockCalls : addBlockRemoves(call)
    \/ \E call \in addBlockCalls : addBlockProcesses(call)
    \/ \E call \in addBlockCalls : addBlockStores(call)

SpecAwaits == InitProgram /\ [][NextAwaits]_vars

(* the chain and callers of addBlock that call it before an earlier call has *)
(* returned; the production interval fires between their turns               *)
NextOverlap ==
    \/ \E nonce \in 1..MaxNonce : addBlockCalls = {} /\ blockProductionTick(nonce)
    \/ \E block \in AwaitedBlocks : addBlockBegins(block)
    \/ \E call \in addBlockCalls : addBlockRemoves(call)
    \/ \E call \in addBlockCalls : addBlockProcesses(call)
    \/ \E call \in addBlockCalls : addBlockStores(call)

SpecOverlap == InitProgram /\ [][NextOverlap]_vars

(* a TransactionPool that earlier calls have filled, and the calls of its owner *)
InitPool ==
    /\ validatorInfos = initializeValidators(1)
    /\ config = defaultConfig
    /\ InitCoordinator
    /\ blocks = [h \in {createGenesis(clock).hash} |-> createGenesis(clock)]
    /\ blocksByNumber = [n \in {0} |-> createGenesis(clock)]
    /\ currentHeight = 0
    /\ accounts = initializeGenesisState
    /\ currentStateRoot = EmptyStateRoot
    /\ pendingTransactions \in PoolInputs
    /\ snapshot = NoSnapshot
    /\ appliedCount = [a \in AddressSet |-> 0]
    /\ addBlockCalls = {}

NextPool ==
    \/ \E tx \in PoolTxInputs : callAddTransaction(tx)
    \/ \E tx \in PoolTxInputs : callRemoveTransaction(TxHash(tx))
    \/ callClear

SpecPool == InitPool /\ [][NextPool]_vars

(* an armed timer fires; nothing makes a validator answer *)
FairSpec == Spec /\ \A timer \in 1..MaxRounds : WF_vars(roundTimeoutFires(timer))

(* two validators whose voteOnBlock returns or throws, the votes that the *)
(* pending round can count, and a block proposed once the request and the *)
(* timer of the round before it are over                                  *)
InitRequests ==
    /\ validatorInfos = initializeValidators(2)
    /\ config = [validatorCount |-> 2, requiredVotes |-> 2]
    /\ InitCoordinator
    /\ InitChain

NextRequests ==
    \/ initialize
    \/ /\ calls = {}
       /\ timers = {}
       /\ \E p \in Proposals : callProposeBlock(p.block, p.proposer)
    \/ \E call \in calls, outcomes \in [ActiveIds -> RequestOutcomes] :
          requestValidatorVotesReturns(call, outcomes)
    \/ \E vote \in VoteInputs :
          /\ vote.blockHash = currentRound.blockHash
          /\ validateVoteSignature(vote)
          /\ validatorVotes(vote)
    \/ \E timer \in timers : roundTimeoutFires(timer)
    \/ stop

(* a request that returns or throws has settled, and proposeBlock resumes; *)
(* an armed timer fires                                                    *)
SpecRequests ==
    /\ InitRequests
    /\ [][NextRequests]_vars
    /\ \A round \in 1..MaxRounds :
          /\ WF_vars(roundTimeoutFires(round))
          /\ WF_vars(\E outcomes \in [ActiveIds -> RequestOutcomes] :
                        requestValidatorVotesReturns(round, outcomes))

(* a coordinator that has archived a hundred rounds, or one fewer, and the *)
(* rounds proposed to it after them, each once the request and the timer  *)
(* of the round before it are over                                        *)
ArchivedRounds(n) ==
    [i \in 1..n |-> [blockHash |-> [archived |-> i], proposer |-> Addresses[1],
                     startTime |-> i - n, votes |-> <<>>, status |-> "rejected",
                     finalizedAt |-> i - n]]

InitHistory ==
    /\ validatorInfos = initializeValidators(2)
    /\ config = [validatorCount |-> 2, requiredVotes |-> 2]
    /\ isActive = FALSE
    /\ voteListeners = 0
    /\ currentRound = NoRound
    /\ consensusHistory \in {ArchivedRounds(n) : n \in (HistoryLimit - 1)..HistoryLimit}
    /\ clock = 1
    /\ timers = {}
    /\ calls = {}
    /\ requestErrors = {}
    /\ InitChain

NextHistory ==
    \/ initialize
    \/ /\ clock <= MaxRounds
       /\ calls = {}
       /\ timers = {}
       /\ \E p \in Proposals : proposeBlockCalled(p.block, p.proposer)
    \/ \E call \in calls : requestValidatorVotesReturns(call, AllReturn)
    \/ \E vote \in VoteInputs :
          /\ vote.blockHash = currentRound.blockHash
          /\ validateVoteSignature(vote)
          /\ validatorVotes(vote)
    \/ \E timer \in timers : roundTimeoutFires(timer)
    \/ stop

SpecHistory == InitHistory /\ [][NextHistory]_vars

(* two validators with the statistics the registry keeps of them, the votes *)
(* it counts and passes on in the first round, and its reputation interval  *)
InitReputation ==
    /\ validatorInfos = withStatistics(initializeValidators(2), [i \in 1..2 |-> 100])
    /\ config = [validatorCount |-> 2, requiredVotes |-> 2]
    /\ InitCoordinator
    /\ InitChain

(* the first round, with the manager's interval firing for validators that  *)
(* have been inactive for no day or for fifty                                *)
NextReputation ==
    \/ initialize
    \/ \E p \in Proposals : consensusHistory = <<>> /\ callProposeBlock(p.block, p.proposer)
    \/ \E call \in calls : requestValidatorVotesReturns(call, AllReturn)
    \/ \E vote \in VoteInputs : validatorVotesCounted(vote)
    \/ \E timer \in timers : roundTimeoutFires(timer)
    \/ \E inactiveDays \in [1..Len(validatorInfos) -> {0, 50}] :
          reputationInterval(inactiveDays)

SpecReputation == InitReputation /\ [][NextReputation]_vars

(* votes that name a validator the registry does not hold; the manager's    *)
(* handleValidatorVote passes every vote on                                 *)
UnregisteredVotes ==
    {[blockHash |-> currentRound.blockHash, validator |-> ValidatorIds[3], vote |-> kind,
      signature |-> "sig"] : kind \in VoteKinds}

(* two validators, the first round, and whatever is emitted as a vote *)
NextRegistry ==
    \/ initialize
    \/ \E p \in Proposals : consensusHistory = <<>> /\ callProposeBlock(p.block, p.proposer)
    \/ \E call \in calls, outcomes \in [ActiveIds -> RequestOutcomes] :
          requestValidatorVotesReturns(call, outcomes)
    \/ \E vote \in VoteInputs \cup UnregisteredVotes : validatorVotes(vote)
    \/ \E timer \in timers : roundTimeoutFires(timer)

SpecRegistry == InitRequests /\ [][NextRegistry]_vars

(* registries of one validator and more, each with a configuration for its   *)
(* size and one of the quorums that size allows                              *)
InitArrival ==
    /\ \E n \in 1..MaxValidators :
          /\ validatorInfos = initializeValidators(n)
          /\ \E q \in 1..n : config = [validatorCount |-> n, requiredVotes |-> q]
    /\ InitCoordinator
    /\ InitChain

(* the first round of such a network and the votes it counts, with no timer  *)
(* firing                                                                    *)
NextArrival ==
    \/ initialize
    \/ \E p \in Proposals : consensusHistory = <<>> /\ callProposeBlock(p.block, p.proposer)
    \/ \E call \in calls : requestValidatorVotesReturns(call, AllReturn)
    \/ \E vote \in VoteInputs :
          /\ vote.blockHash = currentRound.blockHash
          /\ vote.validator \notin Voters(currentRound)
          /\ validateVoteSignature(vote)
          /\ validatorVotes(vote)

SpecArrival == InitArrival /\ [][NextArrival]_vars

----------------------------------------------------------------------------
(* Properties *)

Last(seq) == seq[Len(seq)]

(* the votes handleValidatorVote would count in the pending round *)
Countable(vote) ==
    /\ currentRound # NoRound
    /\ vote.blockHash = currentRound.blockHash
    /\ vote.validator \notin Voters(currentRound)
    /\ validateVoteSignature(vote)

(* C1: every block of the ledger at height 1 or more, the blocks the
   production interval builds among them, was appended after a round for its
   hash had ended approved. *)
C1_CommittedBlocksWereApproved ==
    \A h \in DOMAIN blocks :
        blocks[h].header.number >= 1 =>
            \E i \in 1..Len(consensusHistory) :
                /\ consensusHistory[i].blockHash = h
                /\ consensusHistory[i].status = "approved"

(* C2: at most one round is pending: the coordinator holds one round, it is
   the only one with status pending, and a proposeBlock issued while it is
   pending fails and leaves its block hash, proposer and votes as they were. *)
C2_SinglePendingRound ==
    /\ \A i \in 1..Len(consensusHistory) : consensusHistory[i].status # "pending"
    /\ currentRound # NoRound => currentRound.status = "pending"
    /\ \A p \in Proposals :
          currentRound # NoRound =>
              LET started == proposeBlock(CoordinatorState, p.block, p.proposer)
              IN ~started.ok /\ started.round = currentRound

C2_ProposalWhilePending ==
    /\ isActive
    /\ currentRound # NoRound
    /\ currentRound.votes # <<>>
    /\ \E p \in Proposals : p.block.hash # currentRound.blockHash

(* C3: after each counted vote, the round ends approved if the approvals
   have reached the quorum, and otherwise rejected if the rejections have; no
   round stays pending at the quorum, and with six validators and quorum 4 a
   round that gathered four approvals ended approved in whatever order its
   votes came. *)
C3_QuorumTally ==
    /\ currentRound # NoRound =>
          /\ CountVotes(currentRound.votes, "approve") < config.requiredVotes
          /\ CountVotes(currentRound.votes, "reject") < config.requiredVotes
    /\ \A i \in 1..Len(consensusHistory) :
          CountVotes(consensusHistory[i].votes, "approve") >= config.requiredVotes
              => consensusHistory[i].status = "approved"
    /\ \A vote \in VoteInputs :
          Countable(vote) =>
              LET votes == Append(currentRound.votes, vote)
                  next == handleValidatorVote(CoordinatorState, vote)
              IN /\ CountVotes(votes, "approve") >= config.requiredVotes =>
                       /\ next.round = NoRound
                       /\ Last(next.history).status = "approved"
                       /\ Last(next.history).votes = votes
                 /\ (/\ CountVotes(votes, "approve") < config.requiredVotes
                     /\ CountVotes(votes, "reject") >= config.requiredVotes) =>
                       /\ next.round = NoRound
                       /\ Last(next.history).status = "rejected"
                       /\ Last(next.history).votes = votes

C3_FourApprovalsTwoAbstain ==
    /\ Len(getActiveValidators) = ValidatorCount
    /\ config.requiredVotes = RequiredVotes
    /\ \E i \in 1..Len(consensusHistory) :
          /\ consensusHistory[i].status = "approved"
          /\ Len(consensusHistory[i].votes) = RequiredVotes
          /\ CountVotes(consensusHistory[i].votes, "approve") = RequiredVotes

(* C4: no round is pending once every active validator of the registry has
   voted in it, whatever the number of active validators. *)
C4_AllVotedTerminates ==
    currentRound # NoRound => ~(ActiveIds \subseteq Voters(currentRound))

(* C5: the timer armed for a round ends no other round: when it fires while
   another round is pending, that round and the history stay as they are. *)
C5_TimerEndsOnlyItsRound ==
    [][\A timer \in timers :
          (roundTimeoutFires(timer) /\ currentRound.startTime # timer)
              => UNCHANGED <<currentRound, consensusHistory>>]_vars

(* C6: every proposed round reaches a terminal status, also when a call to a
   validator never returns. *)
C6_EveryRoundTerminates == (currentRound # NoRound) ~> (currentRound = NoRound)

(* C7: a round still pending when the timer fires is archived with the
   status timeout, and the timeout count of the statistics grows by one. *)
C7_TimeoutRecordsTimedOut ==
    [][\A timer \in timers :
          (roundTimeoutFires(timer) /\ currentRound # NoRound)
              => /\ Len(consensusHistory') = Len(consensusHistory) + 1
                 /\ Last(consensusHistory').status = "timeout"
                 /\ timeoutRounds(consensusHistory')
                        = timeoutRounds(consensusHistory) + 1]_vars

(* C8: a vote of a validator that has voted in the pending round changes
   neither the round nor the history, and no round holds two votes of one
   validator. *)
C8_DuplicateVoteIgnored ==
    /\ \A vote \in VoteInputs :
          (currentRound # NoRound /\ vote.validator \in Voters(currentRound)) =>
              LET next == handleValidatorVote(CoordinatorState, vote)
              IN next.round = currentRound /\ next.history = consensusHistory
    /\ \A round \in RoundsOfState :
          \A i, j \in 1..Len(round.votes) :
              round.votes[i].validator = round.votes[j].validator => i = j

C8_SecondVoteOffered ==
    /\ currentRound # NoRound
    /\ \E vote \in VoteInputs :
          /\ vote.blockHash = currentRound.blockHash
          /\ validateVoteSignature(vote)
          /\ \E i \in 1..Len(currentRound.votes) :
                /\ currentRound.votes[i].validator = vote.validator
                /\ currentRound.votes[i].vote # vote.vote

(* C9: a vote that arrives while no round is pending, or that names another
   block than the pending round's, ends in a warning and changes neither the
   pending round nor any archived round. *)
C9_StrayVoteDropped ==
    \A vote \in VoteInputs :
        (currentRound = NoRound \/ vote.blockHash # currentRound.blockHash) =>
            LET next == handleValidatorVote(CoordinatorState, vote)
            IN /\ next.round = currentRound
               /\ next.history = consensusHistory
               /\ next.log \in {"Received vote outside of consensus round",
                                 "Received vote for different block"}
               /\ LET heard == emitVote(CoordinatorState, vote, voteListeners)
                  IN heard.round = currentRound /\ heard.history = consensusHistory

C9_LateVoteForArchivedRound ==
    /\ currentRound # NoRound
    /\ currentRound.votes # <<>>
    /\ \E i \in 1..Len(consensusHistory) : \E vote \in VoteInputs :
          /\ vote.blockHash = consensusHistory[i].blockHash
          /\ vote.blockHash # currentRound.blockHash
          /\ validateVoteSignature(vote)
          /\ vote.validator \notin Voters(currentRound)

(* C10: the steps of a round, from its proposal to its end as rejected,
   change nothing of the chain: the blocks and the height, the balance and
   nonce of every account, the state root and the pool stay as they are. *)
C10_RejectionLeavesChainUntouched ==
    [][(currentRound' # currentRound \/ consensusHistory' # consensusHistory)
          => UNCHANGED <<blocks, blocksByNumber, currentHeight, accounts,
                         currentStateRoot, pendingTransactions>>]_vars

C10_RejectedBesideLedgerAndPool ==
    /\ currentHeight >= 1
    /\ pendingTransactions # <<>>
    /\ \E i \in 1..Len(consensusHistory) : consensusHistory[i].status = "rejected"

(* the transactions processTransaction passes: the sender is known, carries
   the transaction's nonce and can pay value and gas *)
Payable(tx) ==
    /\ tx.from \in DOMAIN accounts
    /\ accounts[tx.from].nonce = tx.nonce
    /\ accounts[tx.from].balance >= tx.value + tx.gasPrice * tx.gasLimit

(* C11: a valid transaction with the sender's nonce and enough balance is
   applied: the sender's nonce grows by one, the sender pays value and gas
   cost, the recipient receives value (a sender paying itself loses the gas
   cost), and a contract creation debits value and gas cost from the sender
   and credits nobody. *)
C11_AppliedTransactionMovesValueAndGas ==
    \A tx \in StoreTxInputs :
        TxValidate(tx) /\ Payable(tx) =>
            LET done == processTransaction(accounts, tx)
                gasCost == tx.gasPrice * tx.gasLimit
                before == accounts[tx.from]
            IN /\ done.ok
               /\ done.accounts[tx.from].nonce = before.nonce + 1
               /\ IF tx.to = NullAddress
                  THEN /\ done.accounts[tx.from].balance = before.balance - tx.value - gasCost
                       /\ \A a \in DOMAIN done.accounts \ {tx.from} :
                              a \in DOMAIN accounts /\ done.accounts[a] = accounts[a]
                  ELSE IF tx.to = tx.from
                  THEN done.accounts[tx.from].balance = before.balance - gasCost
                  ELSE /\ done.accounts[tx.from].balance = before.balance - tx.value - gasCost
                       /\ AccountOf(done.accounts, tx.to).balance =
                              AccountOf(accounts, tx.to).balance + tx.value

(* C12: processTransaction is all-or-nothing.  A transaction whose sender is
   unknown, whose nonce is not the sender's, or whose value and gas cost
   exceed the sender's balance is refused, and every refusal leaves all
   balances, all nonces and the set of accounts as they were and does not
   recompute the state root. *)
C12_RejectionChangesNothing ==
    \A tx \in StoreTxInputs \cup TxInputs :
        LET done == processTransaction(accounts, tx)
        IN /\ (tx.from = Undefined \/ ~Payable(tx)) => ~done.ok
           /\ ~done.ok => done.accounts = accounts /\ ~done.touched

(* a sender that was charged before is offered a transaction it cannot pay,
   and one with a nonce it has used *)
C12_RefusedAfterApplied ==
    \E tx, replay \in StoreTxInputs :
        /\ tx.from \in DOMAIN accounts /\ replay.from = tx.from
        /\ appliedCount[tx.from] >= 1
        /\ tx.nonce = accounts[tx.from].nonce
        /\ accounts[tx.from].balance < tx.value + tx.gasPrice * tx.gasLimit
        /\ replay.nonce < accounts[tx.from].nonce
        /\ ~processTransaction(accounts, tx).ok
        /\ ~processTransaction(accounts, replay).ok

(* C13: restoring a snapshot returns the store to the state the snapshot was
   taken in: the accounts, with every balance and nonce, and the state root
   are those of that moment, whatever was applied or transferred since. *)
C13_RestoreReturnsSnapshotState ==
    snapshot.taken =>
        /\ restoreSnapshot(snapshot).accounts = snapshot.atCreation
        /\ restoreSnapshot(snapshot).currentStateRoot = snapshot.stateRoot

(* the transactions of a block are applied in turn and each one succeeds *)
RECURSIVE AppliedInTurn(_, _)
AppliedInTurn(accts, transactions) ==
    \/ transactions = <<>>
    \/ /\ processTransaction(accts, Head(transactions)).ok
       /\ AppliedInTurn(processTransaction(accts, Head(transactions)).accounts,
                        Tail(transactions))

(* C14: a transaction whose application fails stays out of the chain: when a
   block is committed, each of its transactions was applied successfully to
   the accounts, in the order of the block. *)
C14_CommittedTransactionsWereApplied ==
    [][\A h \in DOMAIN blocks' \ DOMAIN blocks :
          AppliedInTurn(accounts, blocks'[h].transactions)]_vars

(* C15: the block stored at each height n >= 1 has the number n, names the
   hash of the block stored at height n - 1 as its parent, and uses no more
   gas than its limit. *)
C15_ChainLinkage ==
    \A n \in 1..currentHeight :
        /\ blocksByNumber[n].header.number = n
        /\ blocksByNumber[n].header.parentHash = blocksByNumber[n - 1].hash
        /\ blocksByNumber[n].header.gasUsed <= blocksByNumber[n].header.gasLimit

(* C16: addBlock refuses every block whose parent is not stored and every
   block whose number is not the number of the stored block it names as its
   parent plus one. *)
C16_NumberFollowsParent ==
    \A block \in BlockInputs :
        (\/ block.header.parentHash \notin DOMAIN blocks
         \/ block.header.number # blocks[block.header.parentHash].header.number + 1)
            => ~addBlock(ChainState, block).ok

(* C17: a block whose hash the ledger holds is refused, and the refusal
   leaves the height, both indexes, the accounts and the pool as they were. *)
C17_DuplicateBlockRefused ==
    \A block \in BlockInputs :
        block.hash \in DOMAIN blocks =>
            /\ ~addBlock(ChainState, block).ok
            /\ addBlock(ChainState, block).chain = ChainState

(* an appended block, well-formed, is offered again *)
C17_AppendedBlockOfferedAgain ==
    \E block \in BlockInputs :
        /\ block.hash \in DOMAIN blocks
        /\ block.header.number >= 1
        /\ blocksByNumber[currentHeight] = block
        /\ BlockValidate(block)
        /\ ~addBlock(ChainState, block).ok

(* C18: the nonce of every account is the number of transactions of that
   account that processTransaction applied: it grows by one with each of
   them and by nothing else. *)
C18_NonceCountsAppliedTransactions ==
    \A a \in AddressSet : AccountOf(accounts, a).nonce = appliedCount[a]

(* C19: no account has a negative balance, whatever transactions were
   processed and whatever transfers were made. *)
C19_BalancesNonNegative ==
    \A a \in DOMAIN accounts : accounts[a].balance >= 0

(* C20: from construction on, the state root the store reports is the
   commitment over its current accounts in the order of their addresses. *)
C20_StateRootCommitsToAccounts ==
    currentStateRoot = StateRootOf(accounts)

(* what an admission into the pool, taken as full at its size, removes *)
EvictedBy(pool, tx) ==
    LET done == addTransactionWithin(Len(pool), pool, tx)
    IN {pool[i] : i \in 1..Len(pool)} \ {done.pool[i] : i \in 1..Len(done.pool)}

(* C21: whatever the maximum N of the pool, the admission of a valid new      *)
(* transaction into a pool of N entries leaves at most N entries, the new     *)
(* transaction among them, and evicts only entries whose gas price is at most *)
(* that of every entry it keeps.                                              *)
C21_PoolWithinMaximum ==
    LET pool == pendingTransactions
        N == Len(pool)
    IN N >= 1 =>
          \A tx \in PoolTxInputs :
             TxValidate(tx) /\ ~PoolHas(pool, TxHash(tx)) =>
                LET done == addTransactionWithin(N, pool, tx)
                IN /\ done.ok
                   /\ Len(done.pool) <= N
                   /\ PoolHas(done.pool, TxHash(tx))
                   /\ \A e \in EvictedBy(pool, tx) :
                         \A i \in 1..Len(pool) :
                            pool[i] \notin EvictedBy(pool, tx) => e.gasPrice <= pool[i].gasPrice

(* the transactions a pool holds, whatever their order *)
Pending(pool) == {pool[i] : i \in 1..Len(pool)}

(* C22: two pools that hold the same transactions, admitted in different     *)
(* orders, evict the same transactions.                                      *)
C22_EvictionIgnoresInsertionOrder ==
    \A other \in PoolInputs :
        Pending(other) = Pending(pendingTransactions) =>
            Pending(evictLowestFeeTransactions(other))
                = Pending(evictLowestFeeTransactions(pendingTransactions))

(* a recipient that is given and is no address *)
Malformed(to) == to \notin {NullAddress, ""} /\ ~isValidAddress(to)

(* C23: addTransaction returns false and leaves the pool as it was for a     *)
(* transaction of gasLimit <= 0, of negative value or of malformed recipient, *)
(* and for one whose hash is pending, be the pool full or not; and no two     *)
(* entries of the pool have the same hash.                                    *)
C23_RefusedAdmissionChangesNothing ==
    LET pool == pendingTransactions
    IN /\ \A tx \in PoolTxInputs, maxPoolSize \in {MAX_POOL_SIZE, Len(pool)} :
             (tx.gasLimit <= 0 \/ tx.value < 0 \/ Malformed(tx.to)
                 \/ PoolHas(pool, TxHash(tx))) =>
                addTransactionWithin(maxPoolSize, pool, tx) = [ok |-> FALSE, pool |-> pool]
       /\ \A i, j \in 1..Len(pool) : TxHash(pool[i]) = TxHash(pool[j]) => i = j

(* a transaction that a call has admitted is pending and is offered again *)
C23_AdmittedOfferedAgain ==
    /\ clock > 1
    /\ pendingTransactions # <<>>
    /\ Last(pendingTransactions) = Transaction(0, MaxPool + 1, 1, Addresses[2], 1)
    /\ Last(pendingTransactions) \in PoolTxInputs

(* a comes before b in the order of descending gas price, then ascending nonce *)
Outranks(a, b) ==
    \/ a.gasPrice > b.gasPrice
    \/ a.gasPrice = b.gasPrice /\ a.nonce < b.nonce

(* C24: getPendingTransactions(limit) returns at most limit transactions, all *)
(* of them pending and none twice, as many as the pool allows, in the order   *)
(* of descending gas price and then ascending nonce, and none that is left    *)
(* out comes before one that is returned.                                     *)
C24_SelectionByPriority ==
    LET pool == pendingTransactions
    IN \A limit \in 0..(Len(pool) + 1) :
          LET selected == getPendingTransactions(pool, limit)
          IN /\ Len(selected) <= limit
             /\ Len(selected) = IF Len(pool) < limit THEN Len(pool) ELSE limit
             /\ Pending(selected) \subseteq Pending(pool)
             /\ Cardinality(Pending(selected)) = Len(selected)
             /\ \A i, j \in 1..Len(selected) : i < j => ~Outranks(selected[j], selected[i])
             /\ \A left \in Pending(pool) \ Pending(selected) :
                   \A i \in 1..Len(selected) : ~Outranks(left, selected[i])

(* C25: for every pool and address, getPendingNonce returns one more than the *)
(* highest nonce among the pending transactions that the address sent.        *)
C25_PendingNonceOfSender ==
    \A address \in AddressSet :
        LET own == {tx \in Pending(pendingTransactions) : tx.from = address}
            found == getPendingNonce(pendingTransactions, address)
        IN /\ found.ok
           /\ own # {} =>
                 /\ \E tx \in own : found.nonce = tx.nonce + 1
                 /\ \A tx \in own : found.nonce > tx.nonce

(* the blocks stored by this step and those of the calls that are suspended *)
BlocksInCommit ==
    {blocks'[h] : h \in DOMAIN blocks' \ DOMAIN blocks}
        \cup {call.block : call \in addBlockCalls \cup addBlockCalls'}

(* C26: when a block is stored none of its transactions is pending, and a    *)
(* pending transaction leaves the pool only for a block that holds it and is *)
(* being appended, whatever is admitted meanwhile.                           *)
C26_CommittedLeavePoolOthersStay ==
    [][/\ \A h \in DOMAIN blocks' \ DOMAIN blocks :
             \A i \in 1..Len(blocks'[h].transactions) :
                ~PoolHas(pendingTransactions', TxHash(blocks'[h].transactions[i]))
       /\ \A tx \in Pending(pendingTransactions) \ Pending(pendingTransactions') :
             \E block \in BlocksInCommit : tx \in Pending(block.transactions)]_vars

(* C27: whichever validators' requests throw, requestValidatorVotes asks     *)
(* every active validator in turn and does not throw; a ClaudeValidator      *)
(* whose request to its model fails decides reject; and every round that is  *)
(* proposed comes to an end.                                                 *)
C27_FailingValidatorKeepsRound ==
    /\ [](\A outcomes \in [ActiveIds -> RequestOutcomes] :
             LET requested == requestValidatorVotes(getActiveValidators, outcomes)
             IN /\ ~requested.threw
                /\ requested.asked =
                      [i \in 1..Len(getActiveValidators) |-> getActiveValidators[i].id]
                /\ requested.logged = {id \in ActiveIds : outcomes[id] = "throws"})
    /\ [](validateBlock("throws").action \in {"reject", "abstain"})
    /\ (currentRound # NoRound) ~> (currentRound = NoRound)

(* the request to the first of two validators has thrown, the second was     *)
(* asked, and the round has ended by its timer                               *)
C27_EndedAfterFailedRequest ==
    /\ Len(getActiveValidators) = 2
    /\ getActiveValidators[1].id \in requestErrors
    /\ getActiveValidators[2].id \notin requestErrors
    /\ timers = {}
    /\ calls = {}
    /\ currentRound = NoRound
    /\ consensusHistory # <<>>
    /\ Last(consensusHistory).votes = <<>>

(* the statuses that end a round *)
TerminalStatuses == {"approved", "rejected", "timeout"}

(* C28: the coordinator holds no round or a pending one; a pending round     *)
(* changes by the votes counted in it until, in one step, it is archived     *)
(* with a terminal status and the coordinator holds no round; an archived    *)
(* round stays as it is; and an active coordinator that holds no round       *)
(* accepts the next proposal.                                                *)
C28_RoundLifecycle ==
    /\ [](currentRound # NoRound => currentRound.status = "pending")
    /\ []((currentRound = NoRound /\ isActive) =>
             \A p \in Proposals : proposeBlock(CoordinatorState, p.block, p.proposer).ok)
    /\ [][/\ (currentRound # NoRound /\ currentRound' # currentRound) =>
                \/ /\ currentRound' # NoRound
                   /\ currentRound' = [currentRound EXCEPT !.votes = currentRound'.votes]
                   /\ consensusHistory' = consensusHistory
                \/ /\ currentRound' = NoRound
                   /\ Len(consensusHistory') = Len(consensusHistory) + 1
                   /\ Last(consensusHistory').status \in TerminalStatuses
                   /\ Last(consensusHistory').startTime = currentRound.startTime
                   /\ Last(consensusHistory').blockHash = currentRound.blockHash
          /\ (currentRound = NoRound /\ currentRound' # NoRound) =>
                consensusHistory' = consensusHistory
          /\ \A i \in 1..Len(consensusHistory) :
                /\ i <= Len(consensusHistory')
                /\ consensusHistory'[i] = consensusHistory[i]
          /\ Len(consensusHistory') <= Len(consensusHistory) + 1]_vars

(* a round is archived and the next one has been proposed and is pending *)
C28_NextRoundAfterArchived ==
    /\ consensusHistory # <<>>
    /\ currentRound # NoRound
    /\ currentRound.startTime > Last(consensusHistory).startTime

(* C29: as long as the chain stores the one block of its construction, that  *)
(* block is what getLatestBlock returns: the height is 0, the block has the  *)
(* number 0, no transactions and no parent.                                  *)
C29_LatestIsGenesis ==
    Cardinality(DOMAIN blocks) = 1 =>
        LET latest == getLatestBlock(ChainState)
        IN /\ currentHeight = 0
           /\ latest.header.number = 0
           /\ latest.transactions = <<>>
           /\ latest.header.parentHash = ZeroHash
           /\ DOMAIN blocks = {latest.hash}
           /\ blocks[latest.hash] = latest

(* Chain.initialize has run on the chain as constructed *)
C29_Initialized ==
    /\ Cardinality(DOMAIN blocks) = 1
    /\ currentStateRoot = StateRootOf(initializeGenesisState)
    /\ accounts = initializeGenesisState
    /\ pendingTransactions = <<>>

(* C30: a ledger constructed at any other time has the genesis block of this *)
(* one, header by header and hence by hash, and the accounts this one had    *)
(* when it was constructed.                                                  *)
C30_GenesisIndependentOfTime ==
    \A now \in {clock, clock + 1} :
        /\ createGenesis(now).header = blocksByNumber[0].header
        /\ createGenesis(now).hash = blocksByNumber[0].hash
        /\ Cardinality(DOMAIN blocks) = 1 => accounts = initializeGenesisState

(* C31: every reorganization request is rejected with the error NotSupported *)
(* and leaves the blocks, the height, the accounts and the pool as they are. *)
C31_ReorgRejectedNotSupported ==
    \A targetHash \in ReorgTargets :
        LET asked == reorg(ChainState, targetHash)
        IN /\ asked.threw
           /\ asked.error = "NotSupported"
           /\ asked.state = ChainState

(* the last HistoryLimit rounds of a history *)
RECURSIVE MostRecent(_)
MostRecent(history) ==
    IF Len(history) > HistoryLimit THEN MostRecent(Tail(history)) ELSE history

(* C32: the history holds at most 100 rounds, none of them pending; it       *)
(* changes only when the pending round terminates, and then by that round    *)
(* (with the vote that ended it, if one did) appended once at its end, the   *)
(* oldest round leaving when there were 100.                                 *)
C32_HistoryBoundedRecentInOrder ==
    /\ [](Len(consensusHistory) <= HistoryLimit)
    /\ [](\A i \in 1..Len(consensusHistory) : consensusHistory[i].status # "pending")
    /\ [][/\ consensusHistory' # consensusHistory =>
                /\ currentRound # NoRound
                /\ currentRound' = NoRound
                /\ consensusHistory' # <<>>
                /\ LET done == Last(consensusHistory')
                   IN /\ done.blockHash = currentRound.blockHash
                      /\ done.proposer = currentRound.proposer
                      /\ done.startTime = currentRound.startTime
                      /\ done.status \in TerminalStatuses
                      /\ Len(done.votes) >= Len(currentRound.votes)
                      /\ SubSeq(done.votes, 1, Len(currentRound.votes)) = currentRound.votes
                      /\ consensusHistory' = MostRecent(Append(consensusHistory, done))
          /\ (currentRound # NoRound /\ currentRound' = NoRound) =>
                /\ consensusHistory' # consensusHistory
                /\ currentRound.startTime \notin
                      {consensusHistory[i].startTime : i \in 1..Len(consensusHistory)}]_vars

(* a hundred rounds are archived, the oldest of them has left and the last   *)
(* two are rounds that terminated since                                      *)
C32_OldestRoundReplaced ==
    /\ Len(consensusHistory) = HistoryLimit
    /\ consensusHistory[1] # ArchivedRounds(HistoryLimit)[1]
    /\ consensusHistory[HistoryLimit - 1].startTime = 1
    /\ consensusHistory[HistoryLimit].startTime = 2
    /\ currentRound = NoRound

(* C33: getBalance and getNonce resolve to the balance and the nonce of the  *)
(* account at the address, to 0 when there is none, and leave the accounts   *)
(* and the state root as they are: no account is created.                    *)
C33_ReadsDefaultToZeroAndChangeNothing ==
    \A address \in ReadAddresses :
        LET balance == getBalance(accounts, currentStateRoot, address)
            nonce == getNonce(accounts, currentStateRoot, address)
        IN /\ balance.accounts = accounts
           /\ nonce.accounts = accounts
           /\ DOMAIN balance.accounts = DOMAIN accounts
           /\ balance.currentStateRoot = currentStateRoot
           /\ nonce.currentStateRoot = currentStateRoot
           /\ toLowerCase(address) \notin DOMAIN accounts =>
                 balance.value = 0 /\ nonce.value = 0
           /\ toLowerCase(address) \in DOMAIN accounts =>
                 /\ balance.value = accounts[toLowerCase(address)].balance
                 /\ nonce.value = accounts[toLowerCase(address)].nonce

(* the owner's calls have changed the store, an address the owner reads has  *)
(* no account there and another has one that setBalance created              *)
C33_ReadOfUnknownAddress ==
    /\ clock > MaxCalls
    /\ accounts # initializeGenesisState
    /\ Addresses[5] \in DOMAIN accounts
    /\ currentStateRoot = StateRootOf(accounts)
    /\ \E address \in ReadAddresses :
          /\ toLowerCase(address) \notin DOMAIN accounts
          /\ getBalance(accounts, currentStateRoot, address).value = 0
          /\ getNonce(accounts, currentStateRoot, address).value = 0

(* the status a round has once these votes are counted, each validator's     *)
(* vote as one, or pending                                                   *)
StatusByHeadcount(votes) ==
    LET VotersOf(kind) ==
            {votes[i].validator : i \in {j \in 1..Len(votes) : votes[j].vote = kind}}
        approvals == Cardinality(VotersOf("approve"))
        rejections == Cardinality(VotersOf("reject"))
    IN IF approvals >= config.requiredVotes THEN "approved"
       ELSE IF rejections >= config.requiredVotes THEN "rejected"
       ELSE IF Len(votes) < config.validatorCount THEN "pending"
       ELSE IF approvals > rejections THEN "approved"
       ELSE "rejected"

(* C34: whatever the validators' reputations are and whenever they are       *)
(* updated, a counted vote leaves the round with the status its votes give   *)
(* by headcount, each validator's vote counting as one; an update of the     *)
(* reputations changes neither the round, nor the history, nor who is an     *)
(* active validator.                                                         *)
C34_ReputationOutsideTally ==
    /\ [](\A vote \in VoteInputs :
             Countable(vote) =>
                 LET votes == Append(currentRound.votes, vote)
                     next == handleValidatorVote(CoordinatorState, vote)
                 IN IF StatusByHeadcount(votes) = "pending"
                    THEN /\ next.round = [currentRound EXCEPT !.votes = votes]
                         /\ next.history = consensusHistory
                    ELSE /\ next.round = NoRound
                         /\ Last(next.history).status = StatusByHeadcount(votes)
                         /\ Last(next.history).votes = votes)
    /\ [](\A i \in 1..Len(consensusHistory) :
             Len(consensusHistory[i].votes) >= config.validatorCount =>
                 consensusHistory[i].status = StatusByHeadcount(consensusHistory[i].votes))
    /\ [][/\ Len(validatorInfos') = Len(validatorInfos)
          /\ \A i \in 1..Len(validatorInfos) :
                /\ validatorInfos'[i].id = validatorInfos[i].id
                /\ validatorInfos'[i].isActive = validatorInfos[i].isActive
                /\ validatorInfos'[i].reputation # validatorInfos[i].reputation =>
                      /\ currentRound' = currentRound
                      /\ consensusHistory' = consensusHistory]_vars

(* both validators approved and the round ended approved; the first of them *)
(* has no reputation left and the second has all of it                      *)
C34_ApprovedWithoutReputation ==
    /\ validatorInfos[1].reputation = 0
    /\ validatorInfos[2].reputation = 100
    /\ validatorInfos[1].totalVotes = 1
    /\ validatorInfos[2].totalVotes = 1
    /\ currentRound = NoRound
    /\ Len(consensusHistory) = 1
    /\ consensusHistory[1].status = "approved"
    /\ Voters(consensusHistory[1]) = ActiveIds
    /\ CountVotes(consensusHistory[1].votes, "approve") = Len(consensusHistory[1].votes)

(* C35: however calls of addBlock interleave at their awaits, one block is   *)
(* stored per height: the stored blocks are currentHeight + 1, the block     *)
(* stored at a height is never replaced, and every append raises             *)
(* currentHeight by one.                                                     *)
C35_OneBlockPerHeight ==
    /\ [](Cardinality(DOMAIN blocks) = currentHeight + 1)
    /\ [][/\ \A n \in DOMAIN blocksByNumber :
                n \in DOMAIN blocksByNumber' /\ blocksByNumber'[n] = blocksByNumber[n]
          /\ DOMAIN blocks' # DOMAIN blocks => currentHeight' = currentHeight + 1]_vars

(* the four reasons for which addBlock refuses a block *)
Refusable(block) ==
    \/ ~BlockValidate(block)
    \/ block.hash \in DOMAIN blocks
    \/ block.header.parentHash \notin DOMAIN blocks /\ block.header.number > 0
    \/ block.header.number # currentHeight + 1

(* C36: addBlock returns false for an invalid block, a stored hash, a        *)
(* missing parent or a wrong number, and only for these; when it does, the   *)
(* accounts, the pool, the height and both indexes are what they were.       *)
C36_RefusedBlockChangesNothing ==
    \A block \in BlockInputs :
        LET added == addBlock(ChainState, block)
        IN /\ Refusable(block) <=> ~added.ok
           /\ ~added.ok =>
                 /\ added.chain.accounts = accounts
                 /\ added.chain.currentStateRoot = currentStateRoot
                 /\ added.chain.appliedCount = appliedCount
                 /\ added.chain.pendingTransactions = pendingTransactions
                 /\ added.chain.currentHeight = currentHeight
                 /\ added.chain.blocks = blocks
                 /\ added.chain.blocksByNumber = blocksByNumber

(* a well-formed block on a stored parent is refused for its number alone,   *)
(* and its transactions would have changed the accounts or the pool          *)
C36_RefusedWithTransactions ==
    \E block \in BlockInputs :
        /\ BlockValidate(block)
        /\ block.hash \notin DOMAIN blocks
        /\ block.header.parentHash \in DOMAIN blocks
        /\ block.header.number # currentHeight + 1
        /\ processTransactions(ChainState, block.transactions) # ChainState
        /\ ~addBlock(ChainState, block).ok

(* C37: every vote counted in a round, pending or archived, names a          *)
(* validator that the registry holds as active, and requestValidatorVotes    *)
(* asks the active validators, each once, and no other.                      *)
C37_TalliedVotesAreOfActiveValidators ==
    /\ \A round \in RoundsOfState :
          \A i \in 1..Len(round.votes) : round.votes[i].validator \in ActiveIds
    /\ \A outcomes \in [ActiveIds -> RequestOutcomes] :
          LET asked == requestValidatorVotes(getActiveValidators, outcomes).asked
          IN /\ Len(asked) = Cardinality(ActiveIds)
             /\ {asked[i] : i \in 1..Len(asked)} = ActiveIds

(* C38: when proposeBlock resumes after requesting the votes, the round it   *)
(* started is still the pending round: 'roundStarted' carries it, not null,  *)
(* no 'consensusReached' has archived it yet, and the timer is armed for a   *)
(* round that is pending.                                                    *)
C38_RoundStartedBeforeConsensusReached ==
    [][\A call \in calls \ calls' :
          /\ roundStarted(CoordinatorState) # NoRound
          /\ roundStarted(CoordinatorState).startTime = call
          /\ roundStarted(CoordinatorState).status = "pending"
          /\ \A i \in 1..Len(consensusHistory) : consensusHistory[i].startTime # call
          /\ call \in timers' => currentRound'.startTime = call]_vars

(* the orders in which the validators of a set can vote *)
Orders(ids) ==
    {order \in [1..Cardinality(ids) -> ids] :
        \A i, j \in 1..Cardinality(ids) : order[i] = order[j] => i = j}

(* the 'vote' events of a sequence of votes, delivered one after the other *)
RECURSIVE votesArrive(_, _)
votesArrive(st, votes) ==
    IF votes = <<>> THEN st
    ELSE votesArrive(emitVote(st, Head(votes), voteListeners), Tail(votes))

(* the status the pending round ends with when the validators that have not *)
(* voted yet cast this ballot in this order                                  *)
StatusAfter(ballot, order) ==
    LET arrival == [i \in 1..Len(order) |->
                       [blockHash |-> currentRound.blockHash, validator |-> order[i],
                        vote |-> ballot[order[i]], signature |-> "sig"]]
        ended == votesArrive(CoordinatorState, arrival)
    IN IF ended.round # NoRound THEN ended.round.status ELSE Last(ended.history).status

(* C39: with a quorum above half of the validator count and no timeout, a    *)
(* pending round whose remaining validators each cast one vote ends, and the *)
(* status it ends with is the same for every order in which the votes of one *)
(* ballot arrive.                                                            *)
C39_StatusIndependentOfArrivalOrder ==
    (/\ currentRound # NoRound
     /\ voteListeners > 0
     /\ Len(getActiveValidators) = config.validatorCount
     /\ 2 * config.requiredVotes > config.validatorCount) =>
        LET remaining == ActiveIds \ Voters(currentRound)
            first == CHOOSE order \in Orders(remaining) : TRUE
        IN \A ballot \in [remaining -> VoteKinds] :
              /\ StatusAfter(ballot, first) \in {"approved", "rejected"}
              /\ \A order \in Orders(remaining) :
                    StatusAfter(ballot, order) = StatusAfter(ballot, first)

(* a round of three validators or more under such a quorum that has counted  *)
(* a vote, has two votes or more to come, and can still end either way       *)
C39_VotesStillToArrive ==
    /\ currentRound # NoRound
    /\ voteListeners > 0
    /\ 2 * config.requiredVotes > config.validatorCount
    /\ Len(currentRound.votes) >= 1
    /\ Cardinality(ActiveIds \ Voters(currentRound)) >= 2
    /\ LET remaining == ActiveIds \ Voters(currentRound)
           first == CHOOSE order \in Orders(remaining) : TRUE
       IN {StatusAfter(ballot, first) : ballot \in [remaining -> VoteKinds]}
              = {"approved", "rejected"}

====
